---- MODULE Spec2Model ----
(***************************************************************************)
(* Model of the PO catalog library: message entries (file/message.py) and  *)
(* the catalog with its key index, delayed removal and sync                *)
(* (pology/catalog.py).                                                    *)
(*                                                                         *)
(* Four specifications share the variables:                                *)
(*   SpecMsg  - one message entry and its fuzzy/flag/msgstr operations;    *)
(*   SpecLang - the catalog's cached language and update_header;           *)
(*   Spec     - the catalog sequence and its key index under add,          *)
(*              add_more, remove, remove_on_sync and sync_map;             *)
(*   SpecSync - a loaded catalog under in-place edits, remove_on_sync      *)
(*              and sync.                                                  *)
(***************************************************************************)
EXTENDS Integers, Sequences, FiniteSets, TLC

VARIABLES
    msg,              \* the message entry operated on (Message instance)
    hdr,              \* header fields of the catalog (field name -> value)
    lang,             \* Catalog._lang
    lang_determined,  \* Catalog._lang_determined
    messages,         \* Catalog._messages: sequence of message objects
    msgpos,           \* Catalog._msgpos: key -> position
    ros,              \* objects whose _remove_on_sync is True
    committed,        \* objects whose _committed is True
    msgmod,           \* objects whose own modcount is non-zero
    content,          \* objects edited in place since they were created
    lines_all,        \* per object: Message._lines_all (cached line image)
    modified,         \* Catalog.modcount is non-zero
    out,              \* what the last call did: arguments, result, output
    plforms,          \* the header's Plural-Forms field
    msgstrs,          \* per object: the msgstr list of a catalog entry
    tail,             \* Catalog._tail: the unparsed rest of the file
    refline,          \* per object: msg.refline
    refentry,         \* per object: msg.refentry
    inp,              \* the argument of the function under test
    res               \* what the function under test returned

vars == <<msg, hdr, lang, lang_determined, messages, msgpos, ros, committed,
          msgmod, content, lines_all, modified, out, plforms, msgstrs, tail,
          refline, refentry, inp, res>>

msgVars == <<msg>>
langVars == <<hdr, lang, lang_determined>>
plVars == <<plforms, msgstrs, tail, refline, refentry>>
catVars == <<messages, msgpos, ros, committed, msgmod, content, lines_all,
             modified, plVars>>
pureVars == <<inp, res>>

(***************************************************************************)
(* Bounds.                                                                 *)
(***************************************************************************)
MaxStr == 2        \* longest msgstr list of the message under test
MaxCode == 2       \* longest language code, in characters
NumMsgs == 4       \* message objects that exist
NumKeys == 3       \* distinct (msgctxt, msgid) pairs among them
InitLen == 3       \* longest catalog at load
MaxLen == 3        \* longest catalog the adds may build
MaxReq == 2        \* longest request list given to add_more
MaxPF == 2         \* longest Plural-Forms field, in characters
MaxPlLen == 1      \* longest catalog whose msgstr lists vary
MaxLines == 4      \* longest file opened header-only, in lines
MaxHeadLen == 1    \* entries a header-only catalog is let to take
MaxText0 == 4      \* longest text given to resolve_entities
MaxSemi == 2       \* semicolons after the name in an entity value
MaxText == 8       \* longest text resolve_entities is followed to
MaxAltText == 5    \* longest text given to resolve_alternatives
MaxTotal == 2      \* most alternatives per directive
MaxAccText == 5    \* longest enumerated text given to remove_accelerator
MaxEntries == 2    \* most validity entries of a rule
MaxCons == 2       \* most constraints in the validity entries of a rule
MaxRuleLines == 5  \* longest rule file, in lines
MaxFilters == 3    \* most addFilter directives in a rule file

(***************************************************************************)
(* Python values.  None is the empty option <<>>, a present value v is     *)
(* <<v>>.                                                                  *)
(***************************************************************************)
None == <<>>
Some(v) == <<v>>

Range(s) == {s[i] : i \in 1..Len(s)}

SeqsUpTo(S, n) == UNION {[1..k -> S] : k \in 0..n}

(***************************************************************************)
(* file/message.py: one message entry.                                     *)
(***************************************************************************)
Flags == {"fuzzy", "c-format"}
Texts == {"", "x"}
Prevs == {None, Some("old")}

\* Message.__init__: the entry built from an init dictionary.
MessageInit(init) ==
    [flag |-> init.flag,
     obsolete |-> init.obsolete,
     msgctxt_previous |-> init.msgctxt_previous,
     msgid_previous |-> init.msgid_previous,
     msgid_plural_previous |-> init.msgid_plural_previous,
     msgstr |-> init.msgstr,
     cfuzzy |-> ("fuzzy" \in init.flag /\ ~init.obsolete)]

InitDicts ==
    [flag : SUBSET Flags,
     obsolete : BOOLEAN,
     msgctxt_previous : Prevs,
     msgid_previous : Prevs,
     msgid_plural_previous : Prevs,
     msgstr : SeqsUpTo(Texts, MaxStr)]

EmptyDict ==
    [flag |-> {}, obsolete |-> FALSE, msgctxt_previous |-> None,
     msgid_previous |-> None, msgid_plural_previous |-> None,
     msgstr |-> <<>>]

\* A plausible slip: the getter answers from the value cached at construction.
Getattr_fuzzy_cached(m) == m.cfuzzy

\* Message_base.__getattr__, att == "fuzzy".
Getattr_fuzzy(m) == "fuzzy" \in m.flag

\* A plausible slip: an empty msgstr list counts as neither state.
Getattr_untranslated_nonempty(m) ==
    IF Getattr_fuzzy(m) THEN FALSE
    ELSE /\ Len(m.msgstr) > 0
         /\ \A i \in 1..Len(m.msgstr) : m.msgstr[i] = ""

\* Message_base.__getattr__, att == "translated".
Getattr_translated(m) ==
    IF Getattr_fuzzy(m) THEN FALSE
    ELSE \E i \in 1..Len(m.msgstr) : m.msgstr[i] # ""

\* Message_base.__getattr__, att == "untranslated".
Getattr_untranslated(m) ==
    IF Getattr_fuzzy(m) THEN FALSE
    ELSE ~(\E i \in 1..Len(m.msgstr) : m.msgstr[i] # "")

\* A plausible slip: the previous-fields are cleared only when unfuzzying
\* a message that was fuzzy.
Setattr_fuzzy_onlyiffuzzy(m, val) ==
    IF val
    THEN [m EXCEPT !.flag = @ \cup {"fuzzy"}]
    ELSE IF "fuzzy" \in m.flag
         THEN [m EXCEPT !.flag = @ \ {"fuzzy"},
                        !.msgctxt_previous = None,
                        !.msgid_previous = None,
                        !.msgid_plural_previous = None]
         ELSE m

\* Message_base.__setattr__, att == "fuzzy".
Setattr_fuzzy(m, val) ==
    IF val
    THEN [m EXCEPT !.flag = @ \cup {"fuzzy"}]
    ELSE [m EXCEPT !.flag = IF "fuzzy" \in @ THEN @ \ {"fuzzy"} ELSE @,
                   !.msgctxt_previous = None,
                   !.msgid_previous = None,
                   !.msgid_plural_previous = None]

NoOut == [op |-> "none", arg |-> None]

\* msg.fuzzy = val
SetFuzzy(val) ==
    /\ msg' = Setattr_fuzzy(msg, val)
    /\ out' = [op |-> "set_fuzzy", arg |-> val, pre |-> msg]
    /\ UNCHANGED <<langVars, catVars, pureVars>>

\* msg.flag.add(f)
FlagAdd(f) ==
    /\ msg' = [msg EXCEPT !.flag = @ \cup {f}]
    /\ out' = [op |-> "flag_add", arg |-> f, pre |-> msg]
    /\ UNCHANGED <<langVars, catVars, pureVars>>

\* msg.flag.remove(f); removing a flag that is not there raises KeyError.
FlagRemove(f) ==
    /\ f \in msg.flag
    /\ msg' = [msg EXCEPT !.flag = @ \ {f}]
    /\ out' = [op |-> "flag_remove", arg |-> f, pre |-> msg]
    /\ UNCHANGED <<langVars, catVars, pureVars>>

\* msg.<field>_previous = v
SetPrevious(field, v) ==
    /\ msg' = [msg EXCEPT ![field] = v]
    /\ out' = [op |-> "set_previous", arg |-> field, pre |-> msg]
    /\ UNCHANGED <<langVars, catVars, pureVars>>

\* msg.msgstr[:] = v
SetMsgstr(v) ==
    /\ msg' = [msg EXCEPT !.msgstr = v]
    /\ out' = [op |-> "set_msgstr", arg |-> v, pre |-> msg]
    /\ UNCHANGED <<langVars, catVars, pureVars>>

(***************************************************************************)
(* pology/catalog.py: header-derived language and update_header.           *)
(* Strings are sequences of characters here, so that strip() is computed.  *)
(***************************************************************************)
Chars == {" ", "a"}
Codes == SeqsUpTo(Chars, MaxCode)
Now == <<"n", "o", "w">>
HeaderFields == {"Language", "PO-Revision-Date"}

RECURSIVE LStrip(_)
\* str.lstrip()
LStrip(s) ==
    IF s # <<>> /\ Head(s) = " " THEN LStrip(Tail(s)) ELSE s

RECURSIVE RStrip(_)
\* str.rstrip()
RStrip(s) ==
    IF s # <<>> /\ s[Len(s)] = " " THEN RStrip(SubSeq(s, 1, Len(s) - 1)) ELSE s

\* str.strip()
Strip(s) == RStrip(LStrip(s))

\* Header.set_field(name, value)
set_field(h, name, value) == [h EXCEPT ![name] = Some(value)]

\* Header.remove_field(name)
remove_field(h, name) == [h EXCEPT ![name] = None]

\* Header.get_field_value(name): the value, or None when the field is absent
get_field_value(h, name) == h[name]

\* Python truth of an optional string: None and "" are false.
Truthy(o) == o # None /\ o[1] # <<>>

\* A plausible slip: the header value is returned as it stands.
language_nostrip(h, l, d) ==
    IF d THEN [lang |-> l, determined |-> d, ret |-> l]
    ELSE LET fval == get_field_value(h, "Language")
             lg == IF Truthy(fval) THEN Some(fval[1]) ELSE None
         IN [lang |-> lg, determined |-> TRUE, ret |-> lg]

\* Catalog.language()
language(h, l, d) ==
    IF d THEN [lang |-> l, determined |-> d, ret |-> l]
    ELSE LET fval == get_field_value(h, "Language")
             lg == IF Truthy(fval) THEN Some(Strip(fval[1])) ELSE None
         IN [lang |-> lg, determined |-> TRUE, ret |-> lg]

\* Catalog.update_header(langcode=...), every other parameter left at None:
\* the revision date is refreshed and the Language field set or removed.
update_header(h, langcode) ==
    LET h1 == set_field(h, "PO-Revision-Date", Now)
    IN IF Truthy(langcode) THEN set_field(h1, "Language", langcode[1])
       ELSE IF langcode = Some(<<>>) THEN remove_field(h1, "Language")
       ELSE h1

\* cat.update_header(langcode=langcode)
UpdateHeader(langcode) ==
    /\ hdr' = update_header(hdr, langcode)
    /\ out' = [op |-> "update_header", arg |-> langcode]
    /\ UNCHANGED <<msgVars, lang, lang_determined, catVars, pureVars>>

\* cat.language()
Language ==
    LET r == language(hdr, lang, lang_determined)
    IN /\ lang' = r.lang
       /\ lang_determined' = r.determined
       /\ out' = [op |-> "language", arg |-> None, ret |-> r.ret,
                  prev_op |-> out.op, prev_arg |-> out.arg,
                  was_determined |-> lang_determined]
       /\ UNCHANGED <<msgVars, hdr, catVars, pureVars>>

\* cat.set_language(l)
SetLanguage(l) ==
    /\ lang' = l
    /\ lang_determined' = TRUE
    /\ out' = [op |-> "set_language", arg |-> l]
    /\ UNCHANGED <<msgVars, hdr, catVars, pureVars>>


(***************************************************************************)
(* The message objects the catalog operations work on.  An object is       *)
(* named by a number; its key fields, obsolete state and source reference  *)
(* are fixed, its catalog-side attributes are state.                       *)
(***************************************************************************)
Pool == 1..NumMsgs
Hdr == 0
CtxNames == <<"c1", "c2", "c3">>

KeyIdx(m) == (m - 1) % NumKeys

\* msg.msgid
msgid(m) == IF KeyIdx(m) % 2 = 0 THEN "a" ELSE "b"

\* msg.msgctxt
msgctxt(m) ==
    IF KeyIdx(m) \div 2 = 0 THEN None ELSE Some(CtxNames[KeyIdx(m) \div 2])

\* Message_base._compose(["msgctxt", "msgid"]): None becomes "\x00", the
\* values are joined by "\x04" (a pair here).
key(m) == <<IF msgctxt(m) = None THEN "\\x00" ELSE msgctxt(m)[1], msgid(m)>>

\* msg.obsolete (the header entry is never obsolete)
obsolete(m) == m # Hdr /\ m % 2 = 0

\* msg.source: list of (file, line)
source(m) ==
    IF obsolete(m) THEN <<>>
    ELSE << <<IF m <= 3 THEN "a.c" ELSE "b.c", 10 * m>> >>

Keys == {key(m) : m \in Pool}

(***************************************************************************)
(* Python list and dict operations (positions are 0-based).                *)
(***************************************************************************)
\* lst[i], negative i counting from the end; valid for -len <= i < len
PyValid(lst, i) == -Len(lst) <= i /\ i < Len(lst)
PyAt(lst, i) == IF i >= 0 THEN lst[i + 1] ELSE lst[Len(lst) + i + 1]

\* lst.insert(i, x): i is clamped into 0..len, negative i counts from the end
PyInsert(lst, i, x) ==
    LET n == Len(lst)
        p == IF i < 0 THEN (IF n + i < 0 THEN 0 ELSE n + i)
             ELSE (IF i > n THEN n ELSE i)
    IN SubSeq(lst, 1, p) \o <<x>> \o SubSeq(lst, p + 1, n)

\* lst.pop(i) for a valid i
PyPop(lst, i) ==
    LET p == IF i >= 0 THEN i ELSE Len(lst) + i
    IN SubSeq(lst, 1, p) \o SubSeq(lst, p + 2, Len(lst))

\* lst[i] = x for a valid i
PySet(lst, i, x) ==
    LET p == IF i >= 0 THEN i ELSE Len(lst) + i
    IN [lst EXCEPT ![p + 1] = x]

\* d[k] = v
Put(d, k, v) == [x \in DOMAIN d \cup {k} |-> IF x = k THEN v ELSE d[x]]

\* d.pop(k)
Del(d, k) == [x \in DOMAIN d \ {k} |-> d[x]]

EmptyMap == [x \in {} |-> 0]

RECURSIVE BuildLinks(_, _, _)
\* for i in range(len(messages)): msgpos[messages[i].key] = i
BuildLinks(msgs, i, d) ==
    IF i >= Len(msgs) THEN d
    ELSE BuildLinks(msgs, i + 1, Put(d, key(msgs[i + 1]), i))

(***************************************************************************)
(* Catalog.obspos and Catalog._pick_insertion_point.                       *)
(***************************************************************************)
RECURSIVE obspos_from(_, _)
obspos_from(msgs, op) ==
    IF op > 0 /\ obsolete(msgs[op]) THEN obspos_from(msgs, op - 1) ELSE op

\* Catalog.obspos()
obspos(msgs) == obspos_from(msgs, Len(msgs))

\* srefsyn.get(f, [])
Syn(srefsyn, f) == IF f \in DOMAIN srefsyn THEN srefsyn[f] ELSE {}

RECURSIVE SamePrim(_, _, _, _)
\* the inner for over emsg.source: the line of the first source whose file
\* (or synonyms) holds the current primary file, or <<>> when none does
SamePrim(esrcs, k, curr, srefsyn) ==
    IF k > Len(esrcs) THEN None
    ELSE IF curr \in {esrcs[k][1]} \cup Syn(srefsyn, esrcs[k][1])
         THEN Some(esrcs[k][2])
         ELSE SamePrim(esrcs, k + 1, curr, srefsyn)

RECURSIVE Walk(_, _, _, _, _, _, _, _)
\* the for i in range(last) loop for one source (src, lno) of the candidate;
\* yields ins_pos, -1 when the walk ends without choosing a position
Walk(msgs, src, lno, last, i, src_match, curr, srefsyn) ==
    IF i >= last THEN -1
    ELSE LET emsg == msgs[i + 1]
             same == SamePrim(source(emsg), 1, curr, srefsyn)
             curr1 == IF same = None THEN source(emsg)[1][1] ELSE curr
             elno == IF same = None THEN source(emsg)[1][2] ELSE same[1]
         IN IF source(emsg) = <<>>
            THEN Walk(msgs, src, lno, last, i + 1, src_match, curr, srefsyn)
            ELSE IF src \in {curr1} \cup Syn(srefsyn, curr1)
                 THEN IF lno < elno THEN i
                      ELSE Walk(msgs, src, lno, last, i + 1, TRUE, curr1,
                                srefsyn)
                 ELSE IF src_match THEN i
                      ELSE Walk(msgs, src, lno, last, i + 1, src_match, curr1,
                                srefsyn)

RECURSIVE PickSrc(_, _, _, _, _)
\* the for src, lno in msg.source loop
PickSrc(msgs, srcs, k, last, srefsyn) ==
    IF k > Len(srcs) THEN -1
    ELSE LET r == Walk(msgs, srcs[k][1], srcs[k][2], last, 0, FALSE, "",
                       srefsyn)
         IN IF r >= 0 THEN r ELSE PickSrc(msgs, srcs, k + 1, last, srefsyn)

\* Catalog._pick_insertion_point(msg, srefsyn): position and weight (0 or 1)
pick_insertion_point(msgs, m, srefsyn) ==
    LET last == IF ~obsolete(m) THEN obspos(msgs) ELSE Len(msgs)
        ins_pos == PickSrc(msgs, source(m), 1, last, srefsyn)
    IN IF source(m) = <<>> THEN [pos |-> last, weight |-> 0]
       ELSE IF ins_pos >= 0 THEN [pos |-> ins_pos, weight |-> 1]
       ELSE [pos |-> last, weight |-> 0]


(***************************************************************************)
(* Catalog.add_more.  A request is [msg, pos] with pos None (automatic) or *)
(* Some(p).  The result carries the catalog state left behind and how the  *)
(* call ended: "ok", an exception name, or "hang" when a loop never ends.  *)
(***************************************************************************)
\* pos < 0 counts back from the end
Resolve(p, n) == IF p < 0 THEN n + p ELSE p

RECURSIVE InsertSorted(_, _)
InsertSorted(sorted, e) ==
    IF sorted = <<>> THEN <<e>>
    ELSE IF sorted[Len(sorted)].pos <= e.pos THEN Append(sorted, e)
    ELSE Append(InsertSorted(SubSeq(sorted, 1, Len(sorted) - 1), e),
                sorted[Len(sorted)])

RECURSIVE SortByPos(_)
\* sorted(msgpos_ins, key=lambda x: x[1]): stable
SortByPos(lst) ==
    IF lst = <<>> THEN <<>>
    ELSE InsertSorted(SortByPos(SubSeq(lst, 1, Len(lst) - 1)), lst[Len(lst)])

RECURSIVE ResolveAuto(_, _, _, _)
\* the loop over msgs_auto: the inner while never advances i, so it ends
\* only when the list is empty or the position is below the first one
ResolveAuto(msgs, autos, ins, srefsyn) ==
    IF autos = <<>> THEN [hang |-> FALSE, ins |-> ins]
    ELSE LET pos == pick_insertion_point(msgs, Head(autos), srefsyn).pos
         IN IF ins = <<>> \/ pos < ins[1].pos
            THEN ResolveAuto(msgs, Tail(autos),
                             <<[msg |-> Head(autos), pos |-> pos]>> \o ins,
                             srefsyn)
            ELSE [hang |-> TRUE, ins |-> ins]

\* A plausible slip: the running offset is left out.
Accumulate_nooffset(ins, cumulative) == ins

\* if not cumulative and len(msgpos_ins) > 1: pos + off for the off-th entry
Accumulate(ins, cumulative) ==
    IF ~cumulative /\ Len(ins) > 1
    THEN [i \in 1..Len(ins) |-> [msg |-> ins[i].msg, pos |-> ins[i].pos + i - 1]]
    ELSE ins

RECURSIVE UpdRange(_, _, _, _, _)
\* for j in range(pos1, pos2): msgpos[messages[j].key] = j + (off + 1)
UpdRange(d, msgs, j, pos2, off) ==
    IF j >= pos2 THEN [ok |-> TRUE, d |-> d]
    ELSE IF ~PyValid(msgs, j) THEN [ok |-> FALSE, d |-> d]
    ELSE UpdRange(Put(d, key(PyAt(msgs, j)), j + off + 1), msgs, j + 1, pos2,
                  off)

RECURSIVE UpdLinks(_, _, _, _)
\* "Update key-position links for the index to be added"; i counts from 0
\* and equals off
UpdLinks(d, msgs, ins, i) ==
    IF i >= Len(ins) THEN [ok |-> TRUE, d |-> d]
    ELSE LET pos1 == ins[i + 1].pos - i
             pos2 == IF i + 1 < Len(ins) THEN ins[i + 2].pos - (i + 1)
                     ELSE Len(msgs)
             r == UpdRange(d, msgs, pos1, pos2, i)
         IN IF r.ok THEN UpdLinks(r.d, msgs, ins, i + 1) ELSE r

RECURSIVE InsertAll(_, _, _)
\* "Insert messages at computed positions"
InsertAll(st, ins, i) ==
    IF i > Len(ins) THEN st
    ELSE LET m == ins[i].msg
             pos == ins[i].pos
             lst == PyInsert(st.messages, pos, m)
             at == PyAt(lst, pos)
         IN InsertAll([st EXCEPT !.messages = lst,
                                 !.ros = @ \ {at},
                                 !.committed = @ \ {at},
                                 !.msgpos = Put(@, key(m), pos),
                                 !.modified = TRUE],
                      ins, i + 1)

RECURSIVE ReplaceAll_insert(_, _)
\* A plausible slip: the new message is inserted before the old one.
ReplaceAll_insert(st, repl) ==
    IF repl = <<>> THEN st
    ELSE LET m == Head(repl)
             pos == st.msgpos[key(m)]
         IN IF ~PyValid(st.messages, pos)
            THEN [st EXCEPT !.status = "IndexError"]
            ELSE ReplaceAll_insert(
                     [st EXCEPT !.messages = PyInsert(@, pos, m)], Tail(repl))

RECURSIVE ReplaceAll(_, _)
\* "Replace existing messages"
ReplaceAll(st, repl) ==
    IF repl = <<>> THEN st
    ELSE LET m == Head(repl)
             pos == st.msgpos[key(m)]
         IN IF ~PyValid(st.messages, pos)
            THEN [st EXCEPT !.status = "IndexError"]
            ELSE ReplaceAll([st EXCEPT !.messages = PySet(@, pos, m)],
                            Tail(repl))

\* dict(msgpos_ins).get(msg): the last entry of the object wins
PosOf(ins, m) ==
    LET hits == {i \in 1..Len(ins) : ins[i].msg = m}
    IN IF hits = {} THEN None
       ELSE Some(ins[CHOOSE i \in hits : \A j \in hits : j <= i].pos)

\* Catalog._assert_headonly(): TRUE when it raises, that is when the tail
\* kept by a header-only open is a non-empty string (None and "" are falsy)
_assert_headonly(st) == st.tail # None /\ st.tail[1] # <<>>

\* Catalog.add_more(msgpos, cumulative, srefsyn)
add_more(st, req, cumulative, srefsyn) ==
    LET n == Len(st.messages)
        IsNew(r) == key(r.msg) \notin DOMAIN st.msgpos
        IsExpl(r) == IsNew(r) /\ r.pos # None
        IsAuto(r) == IsNew(r) /\ r.pos = None
        IsRepl(r) == ~IsNew(r)
        bad == \E i \in 1..Len(req) :
                   /\ IsExpl(req[i])
                   /\ \/ Resolve(req[i].pos[1], n) < 0
                      \/ Resolve(req[i].pos[1], n) > n
        expl == SelectSeq(req, IsExpl)
        ins0 == [i \in 1..Len(expl) |->
                    [msg |-> expl[i].msg, pos |-> Resolve(expl[i].pos[1], n)]]
        auto0 == SelectSeq(req, IsAuto)
        autos == [i \in 1..Len(auto0) |-> auto0[i].msg]
        repl0 == SelectSeq(req, IsRepl)
        repl == [i \in 1..Len(repl0) |-> repl0[i].msg]
        ra == ResolveAuto(st.messages, autos, SortByPos(ins0), srefsyn)
        ins == Accumulate(ra.ins, cumulative)
        links == UpdLinks(st.msgpos, st.messages, ins, 0)
        st1 == [st EXCEPT !.msgpos = links.d]
        st2 == InsertAll(st1, ins, 1)
        st3 == ReplaceAll(st2, repl)
    IN IF _assert_headonly(st) THEN [st EXCEPT !.status = "PologyError"]
       ELSE IF bad THEN [st EXCEPT !.status = "PologyError"]
       ELSE IF ra.hang THEN [st EXCEPT !.status = "hang"]
       ELSE IF ~links.ok THEN [st1 EXCEPT !.status = "IndexError"]
       ELSE IF st3.status # "ok" THEN st3
       ELSE [st3 EXCEPT !.pos_res =
                 [i \in 1..Len(req) |-> PosOf(ins, req[i].msg)]]

\* The catalog state an operation starts from, with the slots for how the
\* call ends: status, return value, lines written.
CatState ==
    [messages |-> messages, msgpos |-> msgpos, ros |-> ros,
     committed |-> committed, modified |-> modified, msgmod |-> msgmod,
     content |-> content, lines_all |-> lines_all,
     plforms |-> plforms, msgstrs |-> msgstrs, tail |-> tail,
     status |-> "ok", pos_res |-> <<>>, ret |-> FALSE, flines |-> <<>>]

\* The catalog state an operation leaves.  A message object that left the
\* sequence is dropped by the caller: a message handed to the catalog later
\* is either an entry of the catalog or a newly constructed object, so the
\* attributes of objects outside the sequence are those of a new object.
Becomes(left) ==
    \E r \in {left} :
    LET in == Range(r.messages)
    IN /\ messages' = r.messages
       /\ msgpos' = r.msgpos
       /\ ros' = r.ros \cap in
       /\ committed' = r.committed \cap in
       /\ modified' = r.modified
       /\ msgmod' = r.msgmod \cap in
       /\ content' = r.content \cap in
       /\ lines_all' = [m \in Pool |-> IF m \in in THEN r.lines_all[m]
                                       ELSE <<>>]

Hung == out.op = "add_more" /\ out.status = "hang"

\* Positions asked for: automatic, the last one counted from the end, and
\* 0..n+1 (n+1 is out of range, and so is -1 in an empty catalog).
Positions(n) == {None} \cup {Some(p) : p \in -1..(n + 1)}

\* In-range positions of a request list: automatic and 0..n.
ListPositions(n) == {None} \cup {Some(p) : p \in 0..n}

\* request lists of k requests, each for another object; the position of
\* a request whose key is in the index is not looked at, so one value
\* stands for all
Requests(k, n) ==
    {r \in [1..k -> [msg : Pool, pos : ListPositions(n)]] :
        /\ \A i, j \in 1..k : i # j => r[i].msg # r[j].msg
        /\ \A i \in 1..k : key(r[i].msg) \in DOMAIN msgpos => r[i].pos = None}

\* cat.add_more(req, cumulative)
AddMore(req, cumulative) ==
    /\ ~Hung
    /\ Len(messages) + Cardinality({i \in 1..Len(req) :
                                       key(req[i].msg) \notin DOMAIN msgpos})
           <= MaxLen
    /\ LET r == add_more(CatState, req, cumulative, <<>>)
       IN /\ Becomes(r)
          /\ out' = [op |-> "add_more", status |-> r.status]
    /\ UNCHANGED <<msgVars, langVars, plVars, pureVars>>

\* cat.add(m, pos): add_more([(m, pos)])[0]
Add(m, pos) ==
    /\ ~Hung
    /\ Len(messages) < MaxLen \/ key(m) \in DOMAIN msgpos
    /\ LET r == add_more(CatState, <<[msg |-> m, pos |-> pos]>>, FALSE, <<>>)
       IN /\ Becomes(r)
          /\ out' = [op |-> "add", status |-> r.status]
    /\ UNCHANGED <<msgVars, langVars, plVars, pureVars>>

(***************************************************************************)
(* Catalog.remove, remove_on_sync, sync_map.                               *)
(***************************************************************************)
RECURSIVE ShiftDown(_, _, _)
\* for i in range(ip + 1, len(messages)): msgpos[messages[i].key] = i - 1
ShiftDown(d, msgs, i) ==
    IF i >= Len(msgs) THEN d
    ELSE ShiftDown(Put(d, key(msgs[i + 1]), i - 1), msgs, i + 1)

\* Catalog.remove(ident): ident is Some(position) or a message object
\* given as [msg |-> m]
remove(st, ident) ==
    LET byint == ident.kind = "int"
        haskey == byint \/ key(ident.msg) \in DOMAIN st.msgpos
        ip == IF byint THEN ident.pos ELSE st.msgpos[key(ident.msg)]
        k == IF byint THEN key(PyAt(st.messages, ip)) ELSE key(ident.msg)
        d1 == ShiftDown(st.msgpos, st.messages, ip + 1)
    IN IF _assert_headonly(st) THEN [st EXCEPT !.status = "PologyError"]
       ELSE IF ~haskey THEN [st EXCEPT !.status = "KeyError"]
       ELSE IF ~PyValid(st.messages, ip)
            THEN [st EXCEPT !.status = "IndexError",
                            !.msgpos = IF byint THEN @ ELSE d1]
       ELSE IF k \notin DOMAIN d1
            THEN [st EXCEPT !.status = "KeyError", !.msgpos = d1,
                            !.messages = PyPop(@, ip)]
       ELSE [st EXCEPT !.msgpos = Del(d1, k),
                       !.messages = PyPop(@, ip),
                       !.modified = TRUE]

Idents(n) ==
    {[kind |-> "int", pos |-> p, msg |-> Hdr] : p \in 0..(n - 1)}
    \cup {[kind |-> "msg", pos |-> 0, msg |-> m] : m \in Pool}

\* cat.remove(ident)
Remove(ident) ==
    /\ ~Hung
    /\ LET r == remove(CatState, ident)
       IN /\ Becomes(r)
          /\ out' = [op |-> "remove", status |-> r.status]
    /\ UNCHANGED <<msgVars, langVars, plVars, pureVars>>

\* Catalog.remove_on_sync(ident)
remove_on_sync(st, ident) ==
    LET byint == ident.kind = "int"
        haskey == byint \/ key(ident.msg) \in DOMAIN st.msgpos
        ip == IF byint THEN ident.pos ELSE st.msgpos[key(ident.msg)]
    IN IF _assert_headonly(st) THEN [st EXCEPT !.status = "PologyError"]
       ELSE IF ~haskey THEN [st EXCEPT !.status = "KeyError"]
       ELSE IF ~PyValid(st.messages, ip)
            THEN [st EXCEPT !.status = "IndexError"]
       ELSE [st EXCEPT !.ros = @ \cup {PyAt(st.messages, ip)},
                       !.modified = TRUE]

\* cat.remove_on_sync(ident)
RemoveOnSync(ident) ==
    /\ ~Hung
    /\ LET r == remove_on_sync(CatState, ident)
       IN /\ Becomes(r)
          /\ out' = [op |-> "remove_on_sync", status |-> r.status]
    /\ UNCHANGED <<msgVars, langVars, plVars, pureVars>>

\* Catalog.sync_map(): the new sequence and the rebuilt key-position links
sync_map(msgs, rs) ==
    LET cur == SelectSeq(msgs, LAMBDA m : m \notin rs /\ ~obsolete(m))
        obs == SelectSeq(msgs, LAMBDA m : m \notin rs /\ obsolete(m))
        newlst == cur \o obs
    IN [messages |-> newlst, msgpos |-> BuildLinks(newlst, 0, EmptyMap)]

\* cat.sync_map()
SyncMap ==
    /\ ~Hung
    /\ LET r == sync_map(messages, ros)
       IN Becomes([CatState EXCEPT !.messages = r.messages,
                                   !.msgpos = r.msgpos])
    /\ out' = [op |-> "sync_map", status |-> "ok"]
    /\ UNCHANGED <<msgVars, langVars, plVars, pureVars>>

(***************************************************************************)
(* Line images.  The lines of an entry are modelled as one image: which    *)
(* object, which content (0 as created, 1 after an in-place edit) and      *)
(* which layout ("raw": the lines as they stood in the file, "fmt": the    *)
(* lines the serializer renders).  A file entry written in the             *)
(* serializer's own layout has raw lines equal to the rendered ones.       *)
(***************************************************************************)
RawIsCanonical(m) == m % 3 = 0

\* the lines read from the file for entry m
RawImage(m) ==
    [m |-> m, v |-> 0, lay |-> IF RawIsCanonical(m) THEN "fmt" ELSE "raw"]

\* _parse_po_file, "Update line caches": the attributes of the _MessageDict
\* handed to the message type (msg1.__dict__)
ParsedDict(m) == [k \in {"_lines_all"} |-> <<RawImage(m)>>]

\* init.get(k, default)
DictGet(init, k, default) == IF k \in DOMAIN init THEN init[k] ELSE default

\* Message.__init__, "Line caches": self._lines_all
Message_lines_all(init) == DictGet(init, "lines_all", <<>>)

\* Message_base._renew_lines_bymod: the lines rendered from the fields
Render(m, cont) == [m |-> m, v |-> IF m \in cont THEN 1 ELSE 0, lay |-> "fmt"]

\* Message_base.to_lines(wrapf, force): whether the lines are renewed
Renews(m, force, mm, la) == force \/ m \in mm \/ la[m] = <<>>

\* Message_base.to_lines(wrapf, force): the lines returned
to_lines(m, force, mm, cont, la) ==
    IF Renews(m, force, mm, la) THEN Render(m, cont) ELSE la[m][1]

(***************************************************************************)
(* Catalog.sync.                                                           *)
(***************************************************************************)
_monitored == TRUE

\* A plausible slip: the "-1 due to popping" is left out.
Hoist_nominus(msgs, i, obsins) ==
    PyInsert(PyPop(msgs, i), obsins, PyAt(msgs, i))

\* msg = self._messages.pop(i); self._messages.insert(obsins - 1, msg)
Hoist(msgs, i, obsins) ==
    PyInsert(PyPop(msgs, i), obsins - 1, PyAt(msgs, i))

RECURSIVE SyncLoop(_, _, _, _, _, _, _)
\* the while i < nmsgs loop; msgs holds the header at position 0.
\* Yields the reordered list and the objects written, in output order.
SyncLoop(msgs, i, obstop, obsins, noobsend, rs, written) ==
    IF i >= Len(msgs) THEN [messages |-> msgs, written |-> written]
    ELSE LET m == msgs[i + 1]
         IN IF m \in rs
            THEN SyncLoop(msgs, i + 1, obstop, obsins, noobsend, rs, written)
            ELSE IF ~noobsend /\ obsolete(m) /\ i < obstop
            THEN SyncLoop(Hoist(msgs, i, obsins), i,
                          obstop - 1, obsins, noobsend, rs, written)
            ELSE SyncLoop(msgs, i + 1, obstop, obsins, noobsend, rs,
                          Append(written, m))

(***************************************************************************)
(* Plural forms.  Which objects are plural messages is fixed per object;   *)
(* the msgstr list of an entry is state.                                   *)
(***************************************************************************)
PlChars == {"2", "n", ";"}
PluralForms == {None} \cup {Some(f) : f \in SeqsUpTo(PlChars, MaxPF)}
Digits == {"2"}
DigitVal(c) == IF c = "2" THEN 2 ELSE 0

\* msg.msgid_plural
msgid_plural(m) == IF m % 4 \in {1, 2} THEN Some("p") ELSE None

\* s.split(sep)[0]
SplitFirst(s, sep) ==
    LET at == {i \in 1..Len(s) : s[i] = sep}
    IN IF at = {} THEN s
       ELSE SubSeq(s, 1, (CHOOSE i \in at : \A j \in at : i <= j) - 1)

\* re.search(r"\d+", s): the first longest run of digits, None without one
SearchDigits(s) ==
    LET at == {i \in 1..Len(s) : s[i] \in Digits}
    IN IF at = {} THEN None
       ELSE LET a == CHOOSE i \in at : \A j \in at : i <= j
                ends == {j \in a..Len(s) : \A k \in a..j : s[k] \in Digits}
                b == CHOOSE j \in ends : \A k \in ends : k <= j
            IN Some(SubSeq(s, a, b))

RECURSIVE ToInt(_)
\* int(digits)
ToInt(ds) ==
    IF ds = <<>> THEN 0
    ELSE 10 * ToInt(SubSeq(ds, 1, Len(ds) - 1)) + DigitVal(ds[Len(ds)])

\* Catalog.nplurals()
nplurals(pf) ==
    IF ~Truthy(pf) THEN 1
    ELSE LET m == SearchDigits(SplitFirst(pf[1], ";"))
         IN IF m = None THEN 1 ELSE ToInt(m[1])

\* the test of the fitplural loop of Catalog.sync on one entry
NeedsFit(m, ms, n) ==
    /\ msgid_plural(m) # None
    /\ Len(ms[m]) # n
    /\ \A i \in 1..Len(ms[m]) : ms[m][i] = ""

\* as FitPlural, but entries without msgstr fields are passed over
FitPlural_nonempty(msgs, ms, n) ==
    [m \in DOMAIN ms |->
        IF m \in Range(msgs) /\ NeedsFit(m, ms, n) /\ ms[m] # <<>>
        THEN [i \in 1..n |-> ""] ELSE ms[m]]

\* the fitplural loop of Catalog.sync: msg.msgstr[:] = [""] * n
FitPlural(msgs, ms, n) ==
    [m \in DOMAIN ms |->
        IF m \in Range(msgs) /\ NeedsFit(m, ms, n)
        THEN [i \in 1..n |-> ""] ELSE ms[m]]

\* Catalog.sync(force, noobsend, fitplural): the state after fitting the
\* plural entries, which count as modified
Fitted(st, fitplural) ==
    LET n == nplurals(st.plforms)
        ch == IF fitplural
              THEN {m \in Range(st.messages) : NeedsFit(m, st.msgstrs, n)}
              ELSE {}
    IN [st EXCEPT !.msgstrs = IF fitplural
                              THEN FitPlural(st.messages, @, n) ELSE @,
                  !.msgmod = @ \cup ch,
                  !.content = @ \cup ch,
                  !.modified = @ \/ ch # {}]

\* Catalog.sync(force, noobsend): the state left behind, the return value
\* and the entries of the output file (header left out), each with its lines
sync(st, force0, noobsend) ==
    LET force == IF ~_monitored THEN TRUE ELSE force0
        withhdr == <<Hdr>> \o st.messages
        rs == st.ros \ {Hdr}
        obstop == obspos(withhdr)
        lp == SyncLoop(withhdr, 0, obstop, obstop, noobsend, rs, <<>>)
        wr == SelectSeq(lp.written, LAMBDA m : m # Hdr)
        flines == [i \in 1..Len(wr) |->
                     to_lines(wr[i], force \/ wr[i] \notin st.committed,
                              st.msgmod, st.content, st.lines_all)]
        renewed == {m \in Range(wr) :
                      Renews(m, force \/ m \notin st.committed, st.msgmod,
                             st.lines_all)}
        sm == sync_map(Tail(lp.messages), rs)
    IN IF ~force /\ ~st.modified
       THEN [st EXCEPT !.ret = FALSE]
       ELSE [st EXCEPT !.ret = TRUE,
                       !.messages = sm.messages,
                       !.msgpos = sm.msgpos,
                       !.modified = FALSE,
                       !.msgmod = @ \ Range(sm.messages),
                       !.lines_all = [m \in Pool |->
                                        IF m \in renewed
                                        THEN <<Render(m, st.content)>>
                                        ELSE @[m]],
                       !.committed = @ \cup Range(sm.messages),
                       !.flines = flines]

\* cat.sync(force=force, noobsend=noobsend, fitplural=fitplural); pre is
\* the sequence the call found
Sync(force, noobsend, fitplural) ==
    /\ ~Hung
    /\ LET fit == IF fitplural THEN Fitted(CatState, TRUE) ELSE CatState
           r == sync(fit, force, noobsend)
       IN /\ Becomes(r)
          /\ msgstrs' = [m \in Pool |-> IF m \in Range(messages')
                                        THEN fit.msgstrs[m] ELSE <<"x">>]
          /\ out' = [op |-> "sync", status |-> "ok", force |-> force,
                     noobsend |-> noobsend, fitplural |-> fitplural,
                     ret |-> r.ret, flines |-> r.flines, pre |-> messages]
    /\ UNCHANGED <<msgVars, langVars, plforms, tail, refline, refentry,
                   pureVars>>

\* msg.msgstr = v on entry i of the catalog
\* What can go wrong in the second half of sync, in the order of the code:
\* a line cannot be encoded, the temporary file cannot be opened, written
\* or closed, the rename fails; where os.name is "nt" the destination is
\* renamed away first, and the second rename or the removal of the renamed
\* old file fails.
Faults == {"none", "encode", "open", "write", "close", "rename", "rename2",
           "remove"}

\* the files sync works on, as the call leaves them: the destination keeps
\* its old content, has the new one or is missing; the temporary files
\* <filename>~tmpw and <filename>~tmpo exist or not
Untouched == [dest |-> "old", tmpw |-> FALSE, tmpo |-> FALSE]

\* Catalog.sync, "Encode lines and write file" up to the return, for a call
\* on the catalog file itself (writefh=None) that got past the modification
\* test; r is the catalog after the modification state was reset.
write_file(st, r, fault) ==
    LET raised(e, fs) == [r EXCEPT !.status = e, !.committed = st.committed,
                                   !.ret = fs]
    IN CASE fault = "encode" -> raised("CatalogSyntaxError", Untouched)
         [] fault = "open" -> raised("IOError", Untouched)
         [] fault \in {"write", "close"} ->
                raised("IOError", [Untouched EXCEPT !.tmpw = TRUE])
         [] fault = "rename" ->
                raised("OSError", [Untouched EXCEPT !.tmpw = TRUE])
         [] fault = "rename2" ->
                raised("OSError", [dest |-> "missing", tmpw |-> TRUE,
                                   tmpo |-> TRUE])
         [] fault = "remove" ->
                raised("OSError", [dest |-> "new", tmpw |-> FALSE,
                                   tmpo |-> TRUE])
         [] OTHER -> [r EXCEPT !.ret = [Untouched EXCEPT !.dest = "new"]]

\* Catalog.sync(force, noobsend) with the outcome of its file operations
sync_io(st, force0, noobsend, fault) ==
    LET r == sync(st, force0, noobsend)
    IN IF ~r.ret THEN [r EXCEPT !.ret = Untouched]
       ELSE write_file(st, r, fault)

\* cat.sync(force, noobsend) where the file operations may fail
SyncIO(force, noobsend, fault) ==
    /\ ~Hung
    /\ \E r \in {sync_io(CatState, force, noobsend, fault)} :
          /\ Becomes(r)
          /\ out' = [op |-> "sync_io", status |-> r.status,
                     fault |-> fault, files |-> r.ret,
                     modified |-> modified,
                     uncommitted |-> Range(messages) \ committed]
    /\ UNCHANGED <<msgVars, langVars, plVars, pureVars>>

SetEntryMsgstr(i, v) ==
    /\ i \in 1..Len(messages)
    /\ msgstrs[messages[i]] # v
    /\ msgstrs' = [msgstrs EXCEPT ![messages[i]] = v]
    /\ msgmod' = msgmod \cup {messages[i]}
    /\ content' = content \cup {messages[i]}
    /\ modified' = TRUE
    /\ out' = [op |-> "set_msgstr", status |-> "ok"]
    /\ UNCHANGED <<msgVars, langVars, messages, msgpos, ros, committed,
                   lines_all, plforms, tail, refline, refentry, pureVars>>

\* an in-place edit of a field of entry i that is not part of the key
\* (msg.msgstr[0] = ...): the entry and the catalog count as modified
(***************************************************************************)
(* Header-only mode.  A file is its sequence of lines, each line known by  *)
(* what the parser looks at: blank, comment, msgid or msgstr.  The tail is *)
(* the sequence of lines joined into the tail string; every line of a file *)
(* ends with a newline, so the string is empty exactly when no line is in  *)
(* it.                                                                     *)
(***************************************************************************)
LineKinds == {"blank", "comment", "msgid", "msgstr"}

\* lines[a:] for 0 <= a
PySliceFrom(lines, a) == SubSeq(lines, a + 1, Len(lines))

\* try_finish() in _parse_po_file: p holds loc.lno, loc.field_context,
\* the number of messages read and loc.tail
try_finish(lines, p, headonly) ==
    IF p.field_context # "msgstr" THEN p
    ELSE LET q == [p EXCEPT !.field_context = "none", !.n = @ + 1]
             offset == IF p.lno < Len(lines) THEN 1 ELSE 0
         IN IF headonly
            THEN [q EXCEPT !.tail = Some(PySliceFrom(lines, p.lno - offset)),
                           !.lno = Len(lines)]
            ELSE q

RECURSIVE ParseLoop(_, _, _)
\* the loop "while loc.lno < nlines" of _parse_po_file and the
\* try_finish() for the last message after it
ParseLoop(lines, p, headonly) ==
    IF p.lno >= Len(lines) THEN try_finish(lines, p, headonly)
    ELSE LET line == lines[p.lno + 1]
             p1 == [p EXCEPT !.lno = @ + 1]
         IN CASE line = "blank" -> ParseLoop(lines, p1, headonly)
              [] line = "comment" ->
                     ParseLoop(lines, try_finish(lines, p1, headonly),
                               headonly)
              [] line = "msgid" ->
                     ParseLoop(lines,
                               [try_finish(lines, p1, headonly)
                                    EXCEPT !.field_context = "msgid"],
                               headonly)
              [] line = "msgstr" ->
                     ParseLoop(lines, [p1 EXCEPT !.field_context = "msgstr"],
                               headonly)

\* _parse_po_file(file, headonly): the number of entries read and the tail
_parse_po_file(lines, headonly) ==
    ParseLoop(lines, [lno |-> 0, field_context |-> "none", n |-> 0,
                      tail |-> None], headonly)

RECURSIVE Entries(_, _, _)
\* the number of entries of a file of whole entries (comments, then msgid,
\* then msgstr), -1 for another sequence of lines
Entries(lines, i, inentry) ==
    IF i > Len(lines) THEN (IF inentry THEN -1 ELSE 0)
    ELSE IF inentry
         THEN IF lines[i] = "msgstr"
              THEN LET r == Entries(lines, i + 1, FALSE)
                   IN IF r < 0 THEN -1 ELSE r + 1
              ELSE -1
         ELSE IF lines[i] = "msgstr" THEN -1
              ELSE Entries(lines, i + 1, lines[i] = "msgid")

\* PO files of at most MaxLines lines with the header entry first
Files ==
    {f \in SeqsUpTo(LineKinds, MaxLines) : Entries(f, 1, FALSE) >= 1}

\* Catalog.__len__()
__len__(st) ==
    IF _assert_headonly(st) THEN [st EXCEPT !.status = "PologyError"]
    ELSE [st EXCEPT !.ret = Len(st.messages)]

\* Catalog.__getitem__(ident)
__getitem__(st, ident) ==
    LET byint == ident.kind = "int"
        haskey == byint \/ key(ident.msg) \in DOMAIN st.msgpos
        ip == IF byint THEN ident.pos ELSE st.msgpos[key(ident.msg)]
    IN IF _assert_headonly(st) THEN [st EXCEPT !.status = "PologyError"]
       ELSE IF ~haskey THEN [st EXCEPT !.status = "KeyError"]
       ELSE IF ~PyValid(st.messages, ip)
            THEN [st EXCEPT !.status = "IndexError"]
       ELSE [st EXCEPT !.ret = PyAt(st.messages, ip)]

\* Catalog.__setitem__(ident, msg): the entry is replaced in the sequence;
\* the key index is not touched.  The test "self._messages[ident] is not
\* msg" follows the assignment and is always false, so the modification
\* count stays as it was.
__setitem__(st, ident, m) ==
    LET byint == ident.kind = "int"
        haskey == byint \/ key(ident.msg) \in DOMAIN st.msgpos
        ip == IF byint THEN ident.pos ELSE st.msgpos[key(ident.msg)]
    IN IF _assert_headonly(st) THEN [st EXCEPT !.status = "PologyError"]
       ELSE IF ~haskey THEN [st EXCEPT !.status = "KeyError"]
       ELSE IF ~PyValid(st.messages, ip)
            THEN [st EXCEPT !.status = "IndexError"]
       ELSE [st EXCEPT !.messages = PySet(st.messages, ip, m),
                       !.ret = ip]

\* Catalog.__contains__(msg)
__contains__(st, m) ==
    IF _assert_headonly(st) THEN [st EXCEPT !.status = "PologyError"]
    ELSE [st EXCEPT !.ret = key(m) \in DOMAIN st.msgpos]

\* The body of Catalog.find for a lookup message with key mkey and obsolete
\* state mobsolete: the test is on the lookup message, not on the entry.
find_msg(st, mkey, mobsolete, wobs) ==
    IF _assert_headonly(st) THEN [st EXCEPT !.status = "PologyError"]
    ELSE [st EXCEPT !.ret = IF mkey \in DOMAIN st.msgpos
                               /\ (wobs \/ ~mobsolete)
                            THEN st.msgpos[mkey] ELSE -1]

\* Catalog.find(msg, wobs=True)
find(st, m, wobs) == find_msg(st, key(m), obsolete(m), wobs)

\* Catalog.select_by_key(msgctxt, msgid, wobs=False): the lookup message is
\* MessageUnsafe({"msgctxt": msgctxt, "msgid": msgid}), obsolete False by
\* default; the result is a list of at most one entry.
select_by_key(st, ctxt, id, wobs) ==
    LET mkey == <<IF ctxt = None THEN "\\x00" ELSE ctxt[1], id>>
        r == find_msg(st, mkey, FALSE, wobs)
    IN IF r.status # "ok" THEN r
       ELSE [r EXCEPT !.ret = IF r.ret >= 0
                              THEN <<PyAt(st.messages, r.ret)>> ELSE <<>>]

\* Catalog.insertion_inquiry(msg, srefsyn)
insertion_inquiry(st, m, srefsyn) ==
    IF _assert_headonly(st) THEN [st EXCEPT !.status = "PologyError"]
    ELSE [st EXCEPT !.ret = pick_insertion_point(st.messages, m, srefsyn)]

\* an operation that reads the catalog and leaves it as it was
Query(op, r) ==
    /\ ~Hung
    /\ out' = [op |-> op, status |-> r.status]
    /\ UNCHANGED <<msgVars, langVars, catVars, pureVars>>

\* len(cat)
LenOp == Query("len", __len__(CatState))

\* cat[ident]
GetItem(ident) == Query("getitem", __getitem__(CatState, ident))

\* m in cat
Contains(m) == Query("contains", __contains__(CatState, m))

\* cat.find(m)
Find(m) == Query("find", find(CatState, m, TRUE))

\* cat[ident] = m for a message m that is not an entry at another position
SetItem(ident, m) ==
    /\ ~Hung
    /\ \E r \in {__setitem__(CatState, ident, m)} :
          /\ r.status = "ok" =>
                 \A j \in 1..Len(r.messages) :
                     r.messages[j] = m => j = (r.ret % Len(r.messages)) + 1
          /\ Becomes(r)
          /\ out' = [op |-> "setitem", status |-> r.status, msg |-> m,
                     pos |-> IF r.status = "ok"
                             THEN r.ret % Len(r.messages) ELSE -1,
                     old |-> IF r.status = "ok"
                             THEN PyAt(messages, r.ret) ELSE Hdr]
    /\ UNCHANGED <<msgVars, langVars, plVars, pureVars>>

\* cat.insertion_inquiry(m, srefsyn) with its result kept
InsertionInquiryOf(m, srefsyn) ==
    /\ ~Hung
    /\ \E r \in {insertion_inquiry(CatState, m, srefsyn)} :
          out' = [op |-> "insertion_inquiry_of", status |-> r.status,
                  msg |-> m, srefsyn |-> srefsyn, ret |-> r.ret]
    /\ UNCHANGED <<msgVars, langVars, catVars, pureVars>>

\* a lookup whose arguments and result are kept
KeyQuery(op, mkey, wobs, r) ==
    /\ ~Hung
    /\ out' = [op |-> op, status |-> r.status, key |-> mkey, wobs |-> wobs,
               ret |-> r.ret]
    /\ UNCHANGED <<msgVars, langVars, catVars, pureVars>>

\* cat.find(m, wobs)
FindWobs(m, wobs) ==
    KeyQuery("find_wobs", key(m), wobs, find(CatState, m, wobs))

\* cat.select_by_key(msgctxt, msgid, wobs)
SelectByKey(ctxt, id, wobs) ==
    LET r == select_by_key(CatState, ctxt, id, wobs)
    IN KeyQuery("select_by_key",
                <<IF ctxt = None THEN "\\x00" ELSE ctxt[1], id>>, wobs, r)

\* cat.insertion_inquiry(m)
InsertionInquiry(m) ==
    Query("insertion_inquiry", insertion_inquiry(CatState, m, <<>>))

(***************************************************************************)
(* resolve.py: resolve_entities.  Texts are sequences of characters over   *)
(* "&", ";" and the name characters "a" and "A"; nalts is 0 and no markup  *)
(* tag is in the alphabet.                                                 *)
(***************************************************************************)
RChars == {"&", ";", "a", "A"}
\* the characters of the texts for which isalnum() holds; they are also
\* the characters a name in _entity_tail_rx is made of
NameChars == {"a", "A", "F", "o", "B", "r"}
EntNames == {<<"a">>, <<"a", "a">>}

RECURSIVE FindChar(_, _, _)
\* text.find(c) from index i (1-based); 0 when absent
FindChar(text, c, i) ==
    IF i > Len(text) THEN 0
    ELSE IF text[i] = c THEN i ELSE FindChar(text, c, i + 1)

\* text[i:] for the 1-based index i
From(text, i) == SubSeq(text, i, Len(text))

RECURSIVE NameLen(_, _)
\* length of the longest run of name characters at the start of text
NameLen(text, i) ==
    IF i < Len(text) /\ text[i + 1] \in NameChars THEN NameLen(text, i + 1)
    ELSE i

\* _entity_tail_rx.match(text): the name matched, None without a match
entity_tail(text) ==
    LET n == NameLen(text, 0)
    IN IF n >= 1 /\ n < Len(text) /\ text[n + 1] = ";"
       THEN Some(SubSeq(text, 1, n)) ELSE None

\* first_to_case(text, upper) with nalts=0: the first letter changes case
first_to_case(text, upper) ==
    LET hits == {i \in 1..Len(text) : text[i] \in NameChars}
        i == CHOOSE i \in hits : \A j \in hits : i <= j
    IN IF hits = {} THEN text
       ELSE [text EXCEPT ![i] = IF upper THEN "A" ELSE "a"]

first_to_upper(text) == first_to_case(text, TRUE)
first_to_lower(text) == first_to_case(text, FALSE)

\* the entity a reference to name is resolved with: the name itself, with
\* fcap also the name with its first letter lowercased
Lookup(name, entities, fcap) ==
    IF fcap /\ name \notin DOMAIN entities THEN first_to_lower(name)
    ELSE name

RECURSIVE ScanEntities(_, _, _, _, _, _)
\* the loop "while True" of resolve_entities: new_text and the number of
\* entities resolved
ScanEntities(text, new_text, nres, entities, ignored, fcap) ==
    LET p == FindChar(text, "&", 1)
        nt == new_text \o SubSeq(text, 1, p)
        rest == From(text, p + 1)
        m == entity_tail(rest)
        entname == Lookup(m[1], entities, fcap)
        entval == IF fcap /\ m[1] # entname
                  THEN first_to_upper(entities[entname])
                  ELSE entities[entname]
    IN IF p = 0 THEN [new_text |-> new_text \o text, nres |-> nres]
       ELSE IF m = None \/ m[1] \in ignored
            THEN ScanEntities(rest, nt, nres, entities, ignored, fcap)
       ELSE IF entname \in DOMAIN entities
            THEN ScanEntities(From(rest, Len(m[1]) + 2),
                              SubSeq(nt, 1, Len(nt) - 1) \o entval,
                              nres + 1, entities, ignored, fcap)
       ELSE ScanEntities(rest, nt, nres, entities, ignored, fcap)

\* the names referred to in a text: every "&" followed by a name and ";"
Refs(text) ==
    {n \in UNION {{SubSeq(text, i + 1, j) : j \in i..Len(text)} :
                     i \in 1..Len(text)} :
        \E i \in 1..Len(text) :
            text[i] = "&" /\ entity_tail(From(text, i + 1)) = Some(n)}

\* the value graph: an edge from an entity to each entity a reference in
\* its value is resolved with (the lowercased lookup counted in)
Edges(entities) ==
    {e \in (DOMAIN entities) \X (DOMAIN entities) :
        \E n \in Refs(entities[e[1]]) :
            e[2] \in {n, first_to_lower(n)}}

Acyclic(entities) ==
    LET E == Edges(entities)
        twice == {e \in (DOMAIN entities) \X (DOMAIN entities) :
                    \E k \in DOMAIN entities :
                        <<e[1], k>> \in E /\ <<k, e[2]>> \in E}
    IN \A n \in DOMAIN entities : <<n, n>> \notin E \cup twice

\* entity values: plain text, or the start of a reference followed by up
\* to MaxSemi semicolons
EntVals ==
    {<<>>, <<"a">>, <<";">>}
    \cup {<<"&">> \o n \o [i \in 1..k |-> ";"] :
             n \in EntNames \cup {<<"A">>}, k \in 0..MaxSemi}

EntityMaps ==
    {e \in UNION {[D -> EntVals] : D \in SUBSET EntNames} : Acyclic(e)}

\* texts given: empty, or starting at the first "&"
EntTexts ==
    {t \in SeqsUpTo(RChars, MaxText0) : t = <<>> \/ t[1] = "&"}

\* one call of resolve_entities: the scan, then the recursive call when an
\* entity has been resolved, else the return (the callers hand the text of
\* the innermost call back unchanged)
ResolveEntities ==
    /\ res.phase = "call"
    /\ LET r == ScanEntities(res.text, <<>>, 0, inp.entities, inp.ignored,
                             inp.fcap)
       IN res' = [text |-> r.new_text,
                  phase |-> IF r.nres = 0 THEN "returned"
                            ELSE IF Len(r.new_text) > MaxText THEN "cut"
                            ELSE "call"]
    /\ out' = [op |-> "resolve_entities", status |-> "ok"]
    /\ UNCHANGED <<msgVars, langVars, catVars, inp>>

(***************************************************************************)
(* resolve.py: resolve_alternatives, with the default head "~@", no fmtstr *)
(* and no condf.  Positions are Python's: 0-based, -1 for not found.       *)
(***************************************************************************)
AltChars == {"~", "@", "/", "a"}
alt_head == <<"~", "@">>

\* text[a:b] for 0 <= a
PySlice(text, a, b) == SubSeq(text, a + 1, b)

RECURSIVE PyFind(_, _, _)
\* text.find(pat, start)
PyFind(text, pat, start) ==
    IF start + Len(pat) > Len(text) THEN -1
    ELSE IF PySlice(text, start, start + Len(pat)) = pat THEN start
    ELSE PyFind(text, pat, start + 1)

RECURSIVE ParseAlts(_, _, _, _, _)
\* for i in range(total): the alternatives read, the position reached and
\* whether the loop was left for want of a separator
ParseAlts(text, sep, p, i, alts) ==
    IF i = 0 THEN [p |-> p, alts |-> alts, broke |-> FALSE]
    ELSE LET pp == p + 1
             q == PyFind(text, <<sep>>, pp)
         IN IF q < 0 THEN [p |-> q, alts |-> alts, broke |-> TRUE]
            ELSE ParseAlts(text, sep, q, i - 1,
                           Append(alts, PySlice(text, pp, q)))

RECURSIVE AltLoop(_, _, _, _, _, _, _)
\* the loop "while True" of resolve_alternatives and the return after it.
\* The path taken depends on text and p alone; leaving the inner loop for
\* want of a separator sets p to -1, the value the loop started with, so a
\* second such exit means the loop repeats for ever ("hang").
AltLoop(text, p, new_text, nresolved, malformed, select, total) ==
    LET pp == p + 1
        ps == PyFind(text, alt_head, pp)
        nt == new_text \o PySlice(text, pp, ps)
        sep == text[ps + Len(alt_head) + 1]
        a == ParseAlts(text, sep, ps + Len(alt_head), total, <<>>)
        isel == select - 1
        nt2 == IF isel < Len(a.alts) THEN nt \o a.alts[isel + 1]
               ELSE nt \o PySlice(text, ps, a.p + 1)
        nr2 == IF isel < Len(a.alts) THEN nresolved + 1 ELSE nresolved
        original == [status |-> "ok", text |-> text, nresolved |-> 0,
                     malformed |-> TRUE]
    IN IF ps < 0
       THEN IF malformed THEN original
            ELSE [status |-> "ok",
                  text |-> new_text \o PySlice(text, pp, Len(text)),
                  nresolved |-> nresolved, malformed |-> FALSE]
       ELSE IF Len(text) < ps + Len(alt_head) + 2 THEN original
       ELSE IF a.broke /\ malformed
            THEN [status |-> "hang", text |-> text, nresolved |-> 0,
                  malformed |-> TRUE]
       ELSE AltLoop(text, a.p, nt2, nr2, malformed \/ a.broke, select,
                    total)

\* resolve_alternatives(text, select, total)
resolve_alternatives(text, select, total) ==
    AltLoop(text, -1, <<>>, 0, FALSE, select, total)

\* the call resolve_alternatives(inp.text, inp.select, inp.total)
ResolveAlternatives ==
    /\ res = None
    /\ LET r == resolve_alternatives(inp.text, inp.select, inp.total)
       IN /\ res' = Some(r)
          /\ out' = [op |-> "resolve_alternatives", status |-> r.status]
    /\ UNCHANGED <<msgVars, langVars, catVars, inp>>

(***************************************************************************)
(* resolve.py: remove_accelerator, with single-character markers.          *)
(***************************************************************************)
AccChars == {"&", "a", " ", "(", ")", ";"}
_usual_accels == <<"_", "&", "~", "^">>

\* text[i:i + 1] for any integer i >= -1
CharAt(text, i) ==
    IF i >= 0 /\ i < Len(text) THEN <<text[i + 1]>> ELSE <<>>

\* text[i:i + 1].isalnum()
IsAlnumAt(text, i) == CharAt(text, i) # <<>> /\ CharAt(text, i)[1] \in NameChars

RECURSIVE SkipBack(_, _)
\* while p1 >= 0 and not text[p1].isalnum(): p1 -= 1
SkipBack(text, p1) ==
    IF p1 >= 0 /\ ~IsAlnumAt(text, p1) THEN SkipBack(text, p1 - 1) ELSE p1

RECURSIVE SkipFwd(_, _)
\* while p2 < tlen and not text[p2].isalnum(): p2 += 1
SkipFwd(text, p2) ==
    IF p2 < Len(text) /\ ~IsAlnumAt(text, p2) THEN SkipFwd(text, p2 + 1)
    ELSE p2

\* the text after the marker at p has been taken out: the group
\* "(<alnum>)" around p goes too when it is at the start or the end
DropGroup(text, p) ==
    LET p1 == SkipBack(text, p - 2) + 1
        p2 == SkipFwd(text, p + 2) - 1
    IN IF CharAt(text, p - 1) = <<"(">> /\ CharAt(text, p + 1) = <<")">>
       THEN IF p1 = 0
            THEN LStrip(PySlice(text, 0, p - 1))
                     \o PySlice(text, p2 + 1, Len(text))
            ELSE IF p2 + 1 = Len(text)
                 THEN PySlice(text, 0, p1)
                          \o RStrip(PySlice(text, p + 2, Len(text)))
                 ELSE text
       ELSE text

\* text[:p] + text[p + 1:]
CutAt(text, p) == PySlice(text, 0, p) \o PySlice(text, p + 1, Len(text))

RECURSIVE AccLoop_all(_, _, _)
\* as AccLoop, going on after a marker has been removed
AccLoop_all(text, accel, p) ==
    LET q == PyFind(text, <<accel>>, p)
        m == entity_tail(PySlice(text, q + 1, Len(text)))
    IN IF q < 0 THEN text
       ELSE IF IsAlnumAt(text, q + 1)
            THEN IF accel = "&" /\ m # None
                 THEN AccLoop_all(text, accel, q + 1 + Len(m[1]) + 1)
                 ELSE AccLoop_all(DropGroup(CutAt(text, q), q), accel, 0)
       ELSE AccLoop_all(IF CharAt(text, q + 1) = <<accel>>
                        THEN CutAt(text, q) ELSE text, accel, q + 1)

RECURSIVE AccLoop(_, _, _)
\* the loop "while True" of remove_accelerator for one marker
AccLoop(text, accel, p) ==
    LET q == PyFind(text, <<accel>>, p)
        m == entity_tail(PySlice(text, q + 1, Len(text)))
    IN IF q < 0 THEN text
       ELSE IF IsAlnumAt(text, q + 1)
            THEN IF accel = "&" /\ m # None
                 THEN AccLoop(text, accel, q + 1 + Len(m[1]) + 1)
                 ELSE DropGroup(CutAt(text, q), q)
       ELSE AccLoop(IF CharAt(text, q + 1) = <<accel>>
                    THEN CutAt(text, q) ELSE text, accel, q + 1)

RECURSIVE ForAccels(_, _, _)
\* for accel in accels
ForAccels(text, accels, i) ==
    IF i > Len(accels) THEN text
    ELSE ForAccels(AccLoop(text, accels[i], 0), accels, i + 1)

\* remove_accelerator(text, accels, greedy)
remove_accelerator(text, accels, greedy) ==
    IF accels = None
    THEN IF ~greedy THEN text ELSE ForAccels(text, _usual_accels, 1)
    ELSE ForAccels(text, accels[1], 1)

\* the call remove_accelerator(inp.text, inp.accels, inp.greedy)
RemoveAccelerator ==
    /\ res = None
    /\ res' = Some(remove_accelerator(inp.text, inp.accels, inp.greedy))
    /\ out' = [op |-> "remove_accelerator", status |-> "ok"]
    /\ UNCHANGED <<msgVars, langVars, catVars, inp>>

(***************************************************************************)
(* rules.py: Rule.process and Rule._is_valid.  The trigger pattern is the  *)
(* character class [ac]; the pattern of a constraint is one literal        *)
(* character, so a search is the test whether the character occurs.  A     *)
(* match is [start, end, group] with Python's 0-based positions.  A test   *)
(* ends "T" or "F", or "E" when it raises (a search in None is a           *)
(* TypeError).                                                             *)
(***************************************************************************)
TriggerClass == {"a", "c"}
_knownKeywords ==
    {"env", "cat", "span", "after", "before", "ctx", "msgid", "msgstr"}

\* the value of a constraint, as setValid leaves it: a compiled pattern
\* for the regex keywords, a list of names for "env" and "cat"
ConsValue(bkey) ==
    CASE bkey = "env" -> {"e"}
      [] bkey = "cat" -> {"k"}
      [] bkey = "span" -> "c"
      [] OTHER -> "b"

\* value.search(text)
Search(value, text) ==
    IF text = None THEN "E"
    ELSE IF \E i \in 1..Len(text[1]) : text[1][i] = value THEN "T" ELSE "F"

RECURSIVE SearchAny(_, _, _)
\* for s in texts: match = value.search(s); if match: break
SearchAny(value, texts, i) ==
    IF i > Len(texts) THEN "F"
    ELSE LET r == Search(value, texts[i])
         IN IF r = "F" THEN SearchAny(value, texts, i + 1) ELSE r

\* the test of one constraint of _is_valid, before "invert" is applied
ConsMatch(bkey, pmatch, text, m, catname, env) ==
    LET value == ConsValue(bkey)
        B(b) == IF b THEN "T" ELSE "F"
    IN CASE bkey = "env" -> B(env # None /\ env[1] \in value)
         [] bkey = "cat" -> B(catname \in value)
         [] bkey = "span" -> Search(value, Some(pmatch.group))
         [] bkey = "after" ->
                B(pmatch.start >= 1 /\ text[pmatch.start] = value)
         [] bkey = "before" ->
                B(pmatch.end < Len(text) /\ text[pmatch.end + 1] = value)
         [] bkey = "ctx" -> Search(value, m.msgctxt)
         [] bkey = "msgid" ->
                SearchAny(value, <<Some(m.msgid), m.msgid_plural>>, 1)
         [] bkey = "msgstr" ->
                SearchAny(value, [i \in 1..Len(m.msgstr) |->
                                     Some(m.msgstr[i])], 1)

RECURSIVE _is_valid(_, _, _, _, _, _, _)
\* Rule._is_valid(pmatch, text, ventry, msg, cat, env), from the i-th
\* constraint of the entry on
_is_valid(pmatch, text, ventry, i, m, catname, env) ==
    IF i > Len(ventry) THEN "T"
    ELSE LET r == ConsMatch(ventry[i].bkey, pmatch, text, m, catname, env)
             match == IF r = "E" THEN "E"
                      ELSE IF ventry[i].invert
                           THEN (IF r = "T" THEN "F" ELSE "T")
                      ELSE r
         IN IF match = "T"
            THEN _is_valid(pmatch, text, ventry, i + 1, m, catname, env)
            ELSE match

RECURSIVE Cancel(_, _, _, _, _, _, _)
\* for entry in self.valid: if self._is_valid(...): cancel = True; break
Cancel(pmatch, text, valid, j, m, catname, env) ==
    IF j > Len(valid) THEN "F"
    ELSE LET r == _is_valid(pmatch, text, valid[j], 1, m, catname, env)
         IN IF r = "F"
            THEN Cancel(pmatch, text, valid, j + 1, m, catname, env)
            ELSE r

\* list(self.pattern.finditer(text)) for a text that is a string
finditer(text) ==
    LET hits == {i \in 1..Len(text) : text[i] \in TriggerClass}
    IN {[start |-> i - 1, end |-> i, group |-> <<text[i]>>] : i \in hits}

\* text_spec of Rule.process
text_spec(msgpart, m) ==
    CASE msgpart = "msgid" ->
             <<[part |-> "msgid", item |-> 0, text |-> Some(m.msgid)],
               [part |-> "msgid_plural", item |-> 0,
                text |-> m.msgid_plural]>>
      [] msgpart = "msgstr" ->
             [i \in 1..Len(m.msgstr) |->
                 [part |-> "msgstr", item |-> i - 1,
                  text |-> Some(m.msgstr[i])]]
      [] msgpart = "msgctxt" ->
             <<[part |-> "msgctxt", item |-> 0, text |-> m.msgctxt]>>

\* Rule.process(msg, cat, env): how the call ends and the spans reported,
\* each with the part and item of the text it is in
process(rule, m, catname, env) ==
    LET spec == text_spec(rule.msgpart, m)
        Texts1 == {i \in 1..Len(spec) : spec[i].text # None}
        raised ==
            \/ \E i \in 1..Len(spec) : spec[i].text = None
            \/ \E i \in Texts1 : \E pm \in finditer(spec[i].text[1]) :
                   Cancel(pm, spec[i].text[1], rule.valid, 1, m, catname,
                          env) = "E"
        failed ==
            UNION {{[part |-> spec[i].part, item |-> spec[i].item,
                     span |-> pm] : pm \in finditer(spec[i].text[1])} :
                       i \in Texts1}
        kept == {f \in failed :
                    \E i \in Texts1 :
                        /\ spec[i].part = f.part /\ spec[i].item = f.item
                        /\ Cancel(f.span, spec[i].text[1], rule.valid, 1, m,
                                  catname, env) = "F"}
    IN IF rule.environ # None /\ env # rule.environ
       THEN [status |-> "ok", failed |-> {}]
       ELSE IF rule.disabled THEN [status |-> "ok", failed |-> {}]
       ELSE IF raised THEN [status |-> "TypeError", failed |-> {}]
       ELSE [status |-> "ok", failed |-> kept]

\* the call rule.process(msg, cat, env)
Process ==
    /\ res = None
    /\ LET r == process(inp.rule, inp.msg, inp.cat, inp.env)
       IN /\ res' = Some(r)
          /\ out' = [op |-> "process", status |-> r.status]
    /\ UNCHANGED <<msgVars, langVars, catVars, inp>>

(***************************************************************************)
(* rules.py: loadRulesFromFile.  A line is known by its directive: "*"     *)
(* starts a rule, "id" and "environment" carry a name, "blank" is an empty *)
(* line.                                                                   *)
(***************************************************************************)
RuleLines ==
    {[d |-> "*", v |-> ""], [d |-> "blank", v |-> ""]}
    \cup [d : {"id"}, v : {"x", "y"}]
    \cup [d : {"environment"}, v : {"e", "f"}]

\* environ or globalEnviron
OrElse(a, b) == IF a # None THEN a ELSE b

\* the end of a rule block: the rule is appended and the fields are reset
EndRule(st) ==
    IF st.inRule
    THEN [st EXCEPT !.inRule = FALSE,
                    !.rules = Append(@, [ident |-> st.ident,
                                         environ |-> OrElse(st.environ,
                                                            st.globalEnviron)]),
                    !.ident = None,
                    !.environ = None]
    ELSE st

\* the "id" directive at line lno
IdLine(st, v, lno) ==
    IF ~st.inRule THEN [st EXCEPT !.status = "StandardError"]
    ELSE IF v \in DOMAIN st.identLines
            /\ st.identLines[v].environ = st.globalEnviron
         THEN [st EXCEPT !.ident = Some(v), !.status = "IdentError"]
    ELSE [st EXCEPT !.ident = Some(v),
                    !.identLines = Put(@, v, [line |-> lno,
                                              environ |-> st.globalEnviron])]

RECURSIVE LoadLoop(_, _, _)
\* the loop over the lines of loadRulesFromFile, lno lines read
LoadLoop(lines, lno, st) ==
    IF lno >= Len(lines) \/ st.status # "ok" THEN st
    ELSE LET f == lines[lno + 1]
             st1 == IF f.d \in {"blank", "*"} THEN EndRule(st) ELSE st
             st2 == CASE f.d = "blank" -> st1
                      [] f.d = "*" -> [st1 EXCEPT !.inRule = TRUE]
                      [] f.d = "id" -> IdLine(st1, f.v, lno + 1)
                      [] f.d = "environment" ->
                             IF st1.inRule
                             THEN [st1 EXCEPT !.environ = Some(f.v)]
                             ELSE [st1 EXCEPT !.globalEnviron = Some(f.v)]
         IN LoadLoop(lines, lno + 1, st2)

\* loadRulesFromFile(filePath): the lines of the file and the sentry line
loadRulesFromFile(lines) ==
    LoadLoop(lines \o <<[d |-> "blank", v |-> ""]>>, 0,
             [inRule |-> FALSE, ident |-> None, environ |-> None,
              globalEnviron |-> None, identLines |-> EmptyMap,
              rules |-> <<>>, status |-> "ok"])

\* the call loadRulesFromFile(inp)
LoadRules ==
    /\ res = None
    /\ LET r == loadRulesFromFile(inp)
       IN /\ res' = Some([status |-> r.status, rules |-> r.rules])
          /\ out' = [op |-> "loadRulesFromFile", status |-> r.status]
    /\ UNCHANGED <<msgVars, langVars, catVars, inp>>

Modify(i) ==
    /\ ~Hung
    /\ i \in 1..Len(messages)
    /\ msgmod' = msgmod \cup {messages[i]}
    /\ content' = content \cup {messages[i]}
    /\ modified' = TRUE
    /\ out' = [op |-> "modify", status |-> "ok"]
    /\ UNCHANGED <<msgVars, langVars, messages, msgpos, ros, committed,
                   lines_all, plVars, pureVars>>

\* a catalog without plural entries, read whole
\* The lines of the header entry in a PO file, by kind.
header_lines == <<"msgid", "msgstr", "\n">>

\* Message_base._renew_lines_bymod: the lines of entry m by kind; source
\* references are left out for an obsolete message and the entry ends with
\* an empty line.
entry_lines(m) ==
    (IF obsolete(m) THEN <<>> ELSE [i \in 1..Len(source(m)) |-> "source"])
    \o (IF msgctxt(m) = None THEN <<>> ELSE <<"msgctxt">>)
    \o <<"msgid", "msgstr", "\n">>

\* the lines of a file with the header and the entries ms
RECURSIVE file_lines(_)
file_lines(ms) ==
    IF ms = <<>> THEN header_lines
    ELSE file_lines(SubSeq(ms, 1, Len(ms) - 1)) \o entry_lines(ms[Len(ms)])

\* line number of the msgid keyword of the i-th entry after the header
MsgidLine(ms, i) ==
    LET before == Len(file_lines(SubSeq(ms, 1, i - 1)))
        el == entry_lines(ms[i])
    IN before + (CHOOSE k \in 1..Len(el) : el[k] = "msgid")

\* the 1-based position of m in ms (m occurs once)
IndexOf(ms, m) == CHOOSE i \in 1..Len(ms) : ms[i] = m

\* _parse_po_file at a msgid line: refline is the line number, refentry the
\* entry number (the header is entry 0); Message.__init__ gives -1 to a
\* message that was not read from a file.
ParsedRefs ==
    /\ refline = [m \in Pool |->
                    IF m \in Range(messages)
                    THEN MsgidLine(messages, IndexOf(messages, m)) ELSE -1]
    /\ refentry = [m \in Pool |->
                     IF m \in Range(messages)
                     THEN IndexOf(messages, m) ELSE -1]

\* The reference numbers are followed in the specification that is about
\* them; the other specifications never read them and hold them at the
\* value Message.__init__ gives to a message not read from a file.
NoRefs ==
    /\ refline = [m \in Pool |-> -1]
    /\ refentry = [m \in Pool |-> -1]

NoPlurals ==
    /\ plforms = None
    /\ msgstrs = [m \in Pool |-> <<"x">>]
    /\ tail = None
    /\ NoRefs

\* no function under test
NoPure ==
    /\ inp = <<>>
    /\ res = <<>>

(***************************************************************************)
(* rules.py: the message filters of a rule file.  A signature is a string  *)
(* built with join; it is kept here as the sequence of the joined items    *)
(* and separators, so that two signatures are equal as strings exactly     *)
(* when they are equal as sequences.                                       *)
(***************************************************************************)
\* sep.join(items)
RECURSIVE Join(_, _)
Join(items, sep) ==
    IF Len(items) <= 1 THEN items
    ELSE Join(SubSeq(items, 1, Len(items) - 1), sep)
         \o <<sep, items[Len(items)]>>

\* _fancyBool(string) and str() of it
_fancyBool(string) == string = "1"
StrBool(b) == IF b THEN "True" ELSE "False"

\* _filterCreateRegex(fields): the function substitutes repl for match with
\* the given case sensitivity; the signature joins the three
_filterCreateRegex(fields) ==
    LET caseSens == _fancyBool(fields.case)
    IN [func |-> [type |-> "Regex", match |-> fields.match,
                  repl |-> fields.repl, caseSens |-> caseSens],
        sig |-> Join(<<fields.match, fields.repl, StrBool(caseSens)>>,
                     "\\x04")]

\* _filterCreateHook(fields): the hook named by a plain path, produced by
\* the factory arguments if there are any; the signature joins the parts of
\* the name only
_filterCreateHook(fields) ==
    [func |-> [type |-> "Hook", name |-> fields.name,
               factoryArgs |-> fields.factory],
     sig |-> Join(<<fields.name>>, "\\x04")]

\* the message parts a filter can act on, in sorted order
PartOrder == <<"msg", "msgid", "msgstr", "pmsgid", "pmsgstr">>

\* _msgFilterSetOnParts(parts, func, sig)
_msgFilterSetOnParts(parts, func, sig) ==
    LET sorted == SelectSeq(PartOrder, LAMBDA x : x \in parts)
    IN [func |-> [func |-> func, parts |-> sorted],
        sig |-> sig \o <<"\\x04">> \o Join(sorted, ",")]

\* loadRulesFromFile at an addFilter* directive outside of rules in
\* environment currentEnviron: the item appended to the filter list
addFilter(fields, currentEnviron) ==
    LET fenvs == IF fields.env = None /\ currentEnviron # None
                 THEN Some(<<currentEnviron[1]>>) ELSE fields.env
        fs == IF fields.type = "Regex" THEN _filterCreateRegex(fields)
              ELSE _filterCreateHook(fields)
        tot == _msgFilterSetOnParts(fields.on, fs.func, fs.sig)
    IN [fenvs |-> fenvs, func |-> tot.func, sig |-> tot.sig]

\* _filterFinalSig(filterList)
RECURSIVE _filterFinalSig(_)
_filterFinalSig(filterList) ==
    IF filterList = <<>> THEN <<>>
    ELSE LET n == Len(filterList)
             front == SubSeq(filterList, 1, n - 1)
         IN (IF n = 1 THEN <<>> ELSE _filterFinalSig(front) \o <<"\\x05">>)
            \o filterList[n].sig

\* _msgFilterComposeFinal(filterList): None, or the closure over the
\* environments and functions of the list
_msgFilterComposeFinal(filterList) ==
    IF filterList = <<>> THEN None
    ELSE Some([i \in 1..Len(filterList) |->
                 [fenvs |-> filterList[i].fenvs, func |-> filterList[i].func]])

\* loadRulesFromFile on a file of two rules, each preceded by clearFilters
\* and its addFilter* directives: the filter function given to each rule
\* and whether the second one was taken from seenMsgFilters
loadFilters(first, second) ==
    LET l1 == [i \in 1..Len(first) |-> addFilter(first[i], None)]
        l2 == [i \in 1..Len(second) |-> addFilter(second[i], None)]
        sig1 == _filterFinalSig(l1)
        f1 == _msgFilterComposeFinal(l1)
        seen == IF f1 = None THEN {} ELSE {sig1}
        sig2 == _filterFinalSig(l2)
    IN [sig1 |-> sig1, sig2 |-> sig2, mfilter1 |-> f1,
        mfilter2 |-> IF sig2 \in seen THEN f1
                     ELSE _msgFilterComposeFinal(l2),
        reused |-> sig2 \in seen]

\* the rule file is loaded
LoadFilters ==
    /\ res = None
    /\ res' = Some(loadFilters(inp.first, inp.second))
    /\ out' = [op |-> "loadFilters", status |-> "ok"]
    /\ UNCHANGED <<msgVars, langVars, catVars, inp>>

\* the addFilter* directives of the bounds
FilterFields ==
    {[type |-> "Regex", match |-> "a", repl |-> r, case |-> c, name |-> "",
      factory |-> None, env |-> e, on |-> o] :
        r \in {"", "r"}, c \in {"0", "1"},
        e \in {None, Some(<<"e1">>), Some(<<"e2">>)},
        o \in {{"pmsgid"}, {"pmsgid", "pmsgstr"}}}
    \cup
    {[type |-> "Hook", match |-> "", repl |-> "", case |-> "0", name |-> "a",
      factory |-> f, env |-> e, on |-> o] :
        f \in {None, Some(<<"1">>), Some(<<"2">>)},
        e \in {None, Some(<<"e1">>), Some(<<"e2">>)},
        o \in {{"pmsgid"}, {"pmsgid", "pmsgstr"}}}

\* two filter stacks with at most MaxFilters directives together
FilterStacks ==
    {[first |-> a, second |-> b] :
        a \in SeqsUpTo(FilterFields, MaxFilters - 1),
        b \in SeqsUpTo(FilterFields, 1)}

(***************************************************************************)
(* Initial states and specifications.                                      *)
(***************************************************************************)
\* Catalogs as loaded: entries in file order with pairwise distinct keys
LoadedSeqs ==
    {s \in SeqsUpTo(Pool, InitLen) :
        \A i, j \in 1..Len(s) : i # j => key(s[i]) # key(s[j])}

MsgDefault == MessageInit(EmptyDict)
HdrDefault == [f \in HeaderFields |-> None]

\* Catalog.__init__ on an existing file
InitCat ==
    /\ msg = MsgDefault
    /\ hdr = HdrDefault
    /\ lang = None
    /\ lang_determined = FALSE
    /\ messages \in LoadedSeqs
    /\ msgpos = BuildLinks(messages, 0, EmptyMap)
    /\ ros = {}
    /\ committed = Range(messages)
    /\ msgmod = {}
    /\ content = {}
    /\ lines_all = [m \in Pool |->
                      IF m \in Range(messages)
                      THEN Message_lines_all(ParsedDict(m))
                      ELSE Message_lines_all(EmptyMap)]
    /\ modified = FALSE
    /\ out = NoOut
    /\ NoPlurals
    /\ NoPure

\* Catalog.__init__ on an existing file, with the reference numbers the
\* parser gave to the entries
InitRef ==
    /\ msg = MsgDefault
    /\ hdr = HdrDefault
    /\ lang = None
    /\ lang_determined = FALSE
    /\ messages \in LoadedSeqs
    /\ msgpos = BuildLinks(messages, 0, EmptyMap)
    /\ ros = {}
    /\ committed = Range(messages)
    /\ msgmod = {}
    /\ content = {}
    /\ lines_all = [m \in Pool |->
                      IF m \in Range(messages)
                      THEN Message_lines_all(ParsedDict(m))
                      ELSE Message_lines_all(EmptyMap)]
    /\ modified = FALSE
    /\ out = NoOut
    /\ plforms = None
    /\ msgstrs = [m \in Pool |-> <<"x">>]
    /\ tail = None
    /\ ParsedRefs
    /\ NoPure

\* Message(init) for the init dictionaries of the bounds
InitMsg ==
    /\ msg \in {MessageInit(d) : d \in InitDicts}
    /\ hdr = HdrDefault
    /\ lang = None
    /\ lang_determined = FALSE
    /\ messages = <<>>
    /\ msgpos = EmptyMap
    /\ ros = {}
    /\ committed = {}
    /\ msgmod = {}
    /\ content = {}
    /\ lines_all = [m \in Pool |-> <<>>]
    /\ modified = FALSE
    /\ out = NoOut
    /\ NoPlurals
    /\ NoPure

\* a catalog whose header has or lacks the Language field
InitLang ==
    /\ msg = MsgDefault
    /\ hdr \in {[HdrDefault EXCEPT !["Language"] = l] :
                  l \in {None} \cup {Some(c) : c \in Codes}}
    /\ lang = None
    /\ lang_determined = FALSE
    /\ messages = <<>>
    /\ msgpos = EmptyMap
    /\ ros = {}
    /\ committed = {}
    /\ msgmod = {}
    /\ content = {}
    /\ lines_all = [m \in Pool |-> <<>>]
    /\ modified = FALSE
    /\ out = NoOut
    /\ NoPlurals
    /\ NoPure

NextMsg ==
    \/ \E val \in BOOLEAN : SetFuzzy(val)
    \/ \E f \in Flags : FlagAdd(f)
    \/ \E f \in Flags : FlagRemove(f)
    \/ \E field \in {"msgctxt_previous", "msgid_previous",
                     "msgid_plural_previous"}, v \in Prevs :
           SetPrevious(field, v)
    \/ \E v \in SeqsUpTo(Texts, MaxStr) : SetMsgstr(v)

NextLang ==
    \/ \E c \in {None} \cup {Some(c) : c \in Codes} : UpdateHeader(c)
    \/ Language
    \/ \E l \in {None} \cup {Some(c) : c \in Codes} : SetLanguage(l)

Next ==
    \/ \E m \in Pool, pos \in Positions(Len(messages)) : Add(m, pos)
    \/ \E k \in 2..MaxReq : \E req \in Requests(k, Len(messages)) :
           AddMore(req, FALSE)
    \/ \E ident \in Idents(Len(messages)) : Remove(ident)
    \/ \E ident \in Idents(Len(messages)) : RemoveOnSync(ident)
    \/ SyncMap

NextSync ==
    \/ \E i \in 1..Len(messages) : Modify(i)
    \/ \E ident \in Idents(Len(messages)) : RemoveOnSync(ident)
    \/ \E force \in BOOLEAN, noobsend \in BOOLEAN :
           Sync(force, noobsend, FALSE)

\* a loaded catalog of at most MaxPlLen entries with their msgstr lists and
\* a header with or without Plural-Forms
InitPlural ==
    /\ msg = MsgDefault
    /\ hdr = HdrDefault
    /\ lang = None
    /\ lang_determined = FALSE
    /\ messages \in {s \in LoadedSeqs : Len(s) <= MaxPlLen}
    /\ msgpos = BuildLinks(messages, 0, EmptyMap)
    /\ ros = {}
    /\ committed = Range(messages)
    /\ msgmod = {}
    /\ content = {}
    /\ lines_all = [m \in Pool |->
                      IF m \in Range(messages)
                      THEN Message_lines_all(ParsedDict(m))
                      ELSE Message_lines_all(EmptyMap)]
    /\ modified = FALSE
    /\ out = NoOut
    /\ plforms \in PluralForms
    /\ msgstrs \in {ms \in [Pool -> SeqsUpTo(Texts, MaxStr)] :
                       \A m \in Pool \ Range(messages) : ms[m] = <<"x">>}
    /\ tail = None
    /\ NoRefs
    /\ NoPure

\* Catalog(file, headonly=True): the header is read, no entry is kept and
\* the rest of the file is the tail
InitHead ==
    /\ msg = MsgDefault
    /\ hdr = HdrDefault
    /\ lang = None
    /\ lang_determined = FALSE
    /\ messages = <<>>
    /\ msgpos = EmptyMap
    /\ ros = {}
    /\ committed = {}
    /\ msgmod = {}
    /\ content = {}
    /\ lines_all = [m \in Pool |-> Message_lines_all(EmptyMap)]
    /\ modified = FALSE
    /\ out = NoOut
    /\ plforms = None
    /\ msgstrs = [m \in Pool |-> <<"x">>]
    /\ inp \in Files
    /\ tail = _parse_po_file(inp, TRUE).tail
    /\ NoRefs
    /\ res = <<>>

\* the entry operations on a catalog of fewer than MaxHeadLen entries
NextHead ==
    \/ LenOp
    \/ \E ident \in Idents(Len(messages) + 1) : GetItem(ident)
    \/ \E m \in Pool : Contains(m)
    \/ \E m \in Pool : Find(m)
    \/ \E m \in Pool : InsertionInquiry(m)
    \/ \E m \in Pool, pos \in Positions(Len(messages)) :
           Len(messages) < MaxHeadLen /\ Add(m, pos)
    \/ \E req \in Requests(2, Len(messages)) :
           Len(messages) < MaxHeadLen /\ AddMore(req, FALSE)
    \/ \E ident \in Idents(Len(messages) + 1) : Remove(ident)
    \/ \E ident \in Idents(Len(messages) + 1) : RemoveOnSync(ident)

\* the catalog is edited and written: newly constructed messages added,
\* removals requested, then sync
NextRef ==
    \/ \E m \in Pool \ Range(messages), pos \in Positions(Len(messages)) :
           refentry[m] = -1 /\ Add(m, pos)
    \/ \E ident \in Idents(Len(messages)) : RemoveOnSync(ident)
    \/ \E force \in BOOLEAN, noobsend \in BOOLEAN :
           Sync(force, noobsend, FALSE)

\* entries are modified or marked for removal, and the catalog is synced
\* with file operations that may fail
NextIO ==
    \/ \E i \in 1..Len(messages) : Modify(i)
    \/ \E ident \in Idents(Len(messages)) : RemoveOnSync(ident)
    \/ \E force \in BOOLEAN, noobsend \in BOOLEAN, fault \in Faults :
           SyncIO(force, noobsend, fault)

\* source file synonyms: none, or b.c known as a synonym of a.c
SrefSyns == {<<>>, [f \in {"a.c"} |-> {"b.c"}]}

\* insertion inquiries on a catalog that entries are added to and removed
\* from
NextIns ==
    \/ \E m \in Pool, srefsyn \in SrefSyns : InsertionInquiryOf(m, srefsyn)
    \/ \E m \in Pool, pos \in Positions(Len(messages)) : Add(m, pos)
    \/ \E ident \in Idents(Len(messages)) : Remove(ident)

\* cat.add(m, pos), kept with the message and with whether the entry of
\* that key was to be removed on sync when the call was made
AddOf(m, pos) ==
    /\ ~Hung
    /\ Len(messages) < MaxLen \/ key(m) \in DOMAIN msgpos
    /\ \E r \in {add_more(CatState, <<[msg |-> m, pos |-> pos]>>, FALSE,
                          <<>>)} :
          /\ Becomes(r)
          /\ out' = [op |-> "add_of", status |-> r.status, msg |-> m,
                     pending |-> /\ key(m) \in DOMAIN msgpos
                                 /\ PyValid(messages, msgpos[key(m)])
                                 /\ PyAt(messages, msgpos[key(m)]) \in ros]
    /\ UNCHANGED <<msgVars, langVars, plVars, pureVars>>

\* removals are requested, messages are added, the catalog is synced
NextCancel ==
    \/ \E ident \in Idents(Len(messages)) : RemoveOnSync(ident)
    \/ \E m \in Pool, pos \in Positions(Len(messages)) : AddOf(m, pos)
    \/ SyncMap
    \/ \E force \in BOOLEAN, noobsend \in BOOLEAN :
           Sync(force, noobsend, FALSE)

\* entries assigned by position or by lookup message, and read back
NextSet ==
    \/ \E ident \in Idents(Len(messages) + 1), m \in Pool : SetItem(ident, m)
    \/ \E ident \in Idents(Len(messages) + 1) : GetItem(ident)

\* lookups in a catalog that entries are added to and removed from
NextFind ==
    \/ \E m \in Pool, wobs \in BOOLEAN : FindWobs(m, wobs)
    \/ \E ctxt \in {msgctxt(m) : m \in Pool}, id \in {msgid(m) : m \in Pool},
          wobs \in BOOLEAN :
           SelectByKey(ctxt, id, wobs)
    \/ \E m \in Pool, pos \in Positions(Len(messages)) : Add(m, pos)
    \/ \E ident \in Idents(Len(messages)) : Remove(ident)

\* resolve_entities(text, entities, ignored_entities, fcap=fcap) about to
\* be called
InitEnt ==
    /\ msg = MsgDefault
    /\ hdr = HdrDefault
    /\ lang = None
    /\ lang_determined = FALSE
    /\ messages = <<>>
    /\ msgpos = EmptyMap
    /\ ros = {}
    /\ committed = {}
    /\ msgmod = {}
    /\ content = {}
    /\ lines_all = [m \in Pool |-> <<>>]
    /\ modified = FALSE
    /\ out = NoOut
    /\ NoPlurals
    /\ inp \in [text : EntTexts, entities : EntityMaps,
                 ignored : {{}, {<<"a", "a">>}}, fcap : BOOLEAN]
    /\ res = [text |-> inp.text, phase |-> "call"]

NextEnt == ResolveEntities

\* resolve_alternatives(text, select, total) about to be called
InitAlt ==
    /\ msg = MsgDefault
    /\ hdr = HdrDefault
    /\ lang = None
    /\ lang_determined = FALSE
    /\ messages = <<>>
    /\ msgpos = EmptyMap
    /\ ros = {}
    /\ committed = {}
    /\ msgmod = {}
    /\ content = {}
    /\ lines_all = [m \in Pool |-> <<>>]
    /\ modified = FALSE
    /\ out = NoOut
    /\ NoPlurals
    /\ inp \in [text : SeqsUpTo(AltChars, MaxAltText),
                 select : 1..MaxTotal, total : 1..MaxTotal]
    /\ res = None

NextAlt == ResolveAlternatives

\* the texts of the docstring and of its examples
FooAmpBarAmpB == <<"F", "o", "o", " ", "&", "B", "a", "r", " ", "(", "&", "B", ")">>
FooBarAmpB == <<"F", "o", "o", " ", "B", "a", "r", " ", "(", "&", "B", ")">>
FooAmpBar == <<"F", "o", "o", " ", "&", " ", "B", "a", "r">>
FooBar == <<"F", "o", "o", " ", "B", "a", "r">>

\* remove_accelerator(text, accels, greedy) about to be called
InitAccel ==
    /\ msg = MsgDefault
    /\ hdr = HdrDefault
    /\ lang = None
    /\ lang_determined = FALSE
    /\ messages = <<>>
    /\ msgpos = EmptyMap
    /\ ros = {}
    /\ committed = {}
    /\ msgmod = {}
    /\ content = {}
    /\ lines_all = [m \in Pool |-> <<>>]
    /\ modified = FALSE
    /\ out = NoOut
    /\ NoPlurals
    /\ inp \in [text : SeqsUpTo(AccChars, MaxAccText)
                          \cup {FooAmpBarAmpB, FooBarAmpB, FooAmpBar},
                 accels : {None, Some(<<"&">>)}, greedy : BOOLEAN]
    /\ res = None

NextAccel == RemoveAccelerator

\* constraints, validity entries and validity lists of the bounds
Constraints == [bkey : _knownKeywords, invert : BOOLEAN]

RECURSIVE SumLen(_, _)
SumLen(v, i) == IF i > Len(v) THEN 0 ELSE Len(v[i]) + SumLen(v, i + 1)

Valids ==
    {v \in SeqsUpTo(SeqsUpTo(Constraints, MaxCons), MaxEntries) :
        SumLen(v, 1) <= MaxCons}

RuleMessages ==
    [msgctxt : {None, Some(<<"b">>)},
     msgid : {<<"a">>, <<"b", "c">>},
     msgid_plural : {None, Some(<<"a", "b">>)},
     msgstr : {<<<<"c", "b">>>>, <<<<"a">>, <<"b", "a">>>>}]

\* rule.process(msg, cat, env) about to be called
InitRule ==
    /\ msg = MsgDefault
    /\ hdr = HdrDefault
    /\ lang = None
    /\ lang_determined = FALSE
    /\ messages = <<>>
    /\ msgpos = EmptyMap
    /\ ros = {}
    /\ committed = {}
    /\ msgmod = {}
    /\ content = {}
    /\ lines_all = [m \in Pool |-> <<>>]
    /\ modified = FALSE
    /\ out = NoOut
    /\ NoPlurals
    /\ inp \in [rule : [msgpart : {"msgid", "msgstr", "msgctxt"},
                         valid : Valids, environ : {None},
                         disabled : {FALSE}],
                 msg : RuleMessages, cat : {"k"},
                 env : {None, Some("e")}]
    /\ res = None

NextRule == Process

\* the rule blocks of a file: [from, to] with the "*" line at from and the
\* lines up to the next "*" or blank line
Blocks(lines) ==
    {b \in [from : 1..Len(lines), to : 1..Len(lines)] :
        /\ b.from <= b.to
        /\ lines[b.from].d = "*"
        /\ \A i \in (b.from + 1)..b.to : lines[i].d \in {"id", "environment"}
        /\ b.to = Len(lines) \/ lines[b.to + 1].d \in {"*", "blank"}}

\* rule files: every "id" line is in a rule, a rule has at most one "id"
\* and at most one "environment" subdirective
RuleFiles ==
    {f \in SeqsUpTo(RuleLines, MaxRuleLines) :
        /\ \A i \in 1..Len(f) :
               f[i].d = "id" => \E b \in Blocks(f) : b.from < i /\ i <= b.to
        /\ \A b \in Blocks(f) : \A i, j \in (b.from + 1)..b.to :
               (i # j) => f[i].d # f[j].d}

\* loadRulesFromFile(file) about to be called
InitLoad ==
    /\ msg = MsgDefault
    /\ hdr = HdrDefault
    /\ lang = None
    /\ lang_determined = FALSE
    /\ messages = <<>>
    /\ msgpos = EmptyMap
    /\ ros = {}
    /\ committed = {}
    /\ msgmod = {}
    /\ content = {}
    /\ lines_all = [m \in Pool |-> <<>>]
    /\ modified = FALSE
    /\ out = NoOut
    /\ NoPlurals
    /\ inp \in RuleFiles
    /\ res = None

NextLoad == LoadRules

\* a rule file with two filter stacks about to be loaded
InitFilt ==
    /\ msg = MsgDefault
    /\ hdr = HdrDefault
    /\ lang = None
    /\ lang_determined = FALSE
    /\ messages = <<>>
    /\ msgpos = EmptyMap
    /\ ros = {}
    /\ committed = {}
    /\ msgmod = {}
    /\ content = {}
    /\ lines_all = [m \in Pool |-> <<>>]
    /\ modified = FALSE
    /\ out = NoOut
    /\ NoPlurals
    /\ inp \in FilterStacks
    /\ res = None

NextFilt == LoadFilters

NextPlural ==
    \/ \E i \in 1..Len(messages), v \in SeqsUpTo(Texts, MaxStr) :
           SetEntryMsgstr(i, v)
    \/ \E force \in BOOLEAN, fitplural \in BOOLEAN :
           Sync(force, FALSE, fitplural)

SpecMsg == InitMsg /\ [][NextMsg]_vars
SpecLang == InitLang /\ [][NextLang]_vars
Spec == InitCat /\ [][Next]_vars
SpecSync == InitCat /\ [][NextSync]_vars
SpecPlural == InitPlural /\ [][NextPlural]_vars
SpecFind == InitCat /\ [][NextFind]_vars
SpecSet == InitCat /\ [][NextSet]_vars
SpecRef == InitRef /\ [][NextRef]_vars
SpecIO == InitCat /\ [][NextIO]_vars
SpecFilt == InitFilt /\ [][NextFilt]_vars
SpecIns == InitCat /\ [][NextIns]_vars
SpecCancel == InitCat /\ [][NextCancel]_vars
SpecHead == InitHead /\ [][NextHead]_vars
\* a call that is made runs on
SpecEnt == InitEnt /\ [][NextEnt]_vars /\ WF_vars(NextEnt)
SpecAlt == InitAlt /\ [][NextAlt]_vars
SpecAccel == InitAccel /\ [][NextAccel]_vars
SpecRule == InitRule /\ [][NextRule]_vars
SpecLoad == InitLoad /\ [][NextLoad]_vars


(***************************************************************************)
(* Properties.                                                             *)
(***************************************************************************)
Prevs3(m) == <<m.msgctxt_previous, m.msgid_previous, m.msgid_plural_previous>>

\* C3: reading msg.fuzzy yields true exactly when "fuzzy" is in msg.flag,
\* after any assignments to fuzzy and additions to or removals from the flag
\* set; in particular the value read after msg.fuzzy = v is v.
Inv_C3 ==
    /\ Getattr_fuzzy(msg) <=> "fuzzy" \in msg.flag
    /\ out.op = "set_fuzzy" => Getattr_fuzzy(msg) = out.arg
    /\ out.op = "flag_add" /\ out.arg = "fuzzy" => Getattr_fuzzy(msg)
    /\ out.op = "flag_remove" /\ out.arg = "fuzzy" => ~Getattr_fuzzy(msg)

\* C3 witness: a message constructed fuzzy whose flag was then taken out of
\* the flag set reads as not fuzzy.
Wit_C3 ==
    /\ out.op = "flag_remove"
    /\ out.arg = "fuzzy"
    /\ "fuzzy" \in out.pre.flag
    /\ ~out.pre.obsolete
    /\ ~Getattr_fuzzy(msg)

\* C4: msg.fuzzy = False removes "fuzzy" from the flags and sets the three
\* previous-fields to None, whatever they were and whether or not the
\* message was fuzzy; msg.fuzzy = True adds the flag and leaves the three
\* previous-fields as they were.
Inv_C4 ==
    out.op = "set_fuzzy" =>
        IF out.arg
        THEN /\ msg.flag = out.pre.flag \cup {"fuzzy"}
             /\ Prevs3(msg) = Prevs3(out.pre)
        ELSE /\ msg.flag = out.pre.flag \ {"fuzzy"}
             /\ Prevs3(msg) = <<None, None, None>>

\* C4 witness: fuzzy = False was assigned to a message that was not fuzzy
\* and had a previous msgid, and the previous msgid is gone.
Wit_C4 ==
    /\ out.op = "set_fuzzy"
    /\ ~out.arg
    /\ "fuzzy" \notin out.pre.flag
    /\ out.pre.msgid_previous # None
    /\ msg.msgid_previous = None

\* C5: translated and untranslated are never both true, and both are false
\* exactly when the message is fuzzy, for every msgstr list.
Inv_C5 ==
    /\ ~(Getattr_translated(msg) /\ Getattr_untranslated(msg))
    /\ (~Getattr_translated(msg) /\ ~Getattr_untranslated(msg))
           <=> Getattr_fuzzy(msg)

\* C5 witness: a message that is not fuzzy was given the empty msgstr list
\* and reads as untranslated.
Wit_C5 ==
    /\ out.op = "set_msgstr"
    /\ msg.msgstr = <<>>
    /\ ~Getattr_fuzzy(msg)
    /\ Getattr_untranslated(msg)
    /\ ~Getattr_translated(msg)

\* the objects of the lines written, in output order
Ids(flines) == [i \in 1..Len(flines) |-> flines[i].m]

\* C6 as claimed: when sync writes without force, every entry not edited
\* since load is written as exactly the raw lines read for it at load.
CE_C6 ==
    out.op = "sync" /\ out.ret /\ ~out.force =>
        \A i \in 1..Len(out.flines) :
            out.flines[i].m \notin content =>
                out.flines[i] = RawImage(out.flines[i].m)

\* C7 as claimed: language() right after update_header(langcode=x), x not
\* empty, returns x, whatever happened before.
CE_C7 ==
    out.op = "language" /\ out.prev_op = "update_header"
        /\ Truthy(out.prev_arg) => out.ret = out.prev_arg

\* C7 amended: on a catalog whose language was not yet determined (no
\* earlier language() or set_language() call), language() right after
\* update_header(langcode=x), x not empty, returns x stripped of leading
\* and trailing whitespace.
Inv_C7 ==
    out.op = "language" /\ out.prev_op = "update_header"
        /\ Truthy(out.prev_arg) /\ ~out.was_determined
        => out.ret = Some(Strip(out.prev_arg[1]))

\* C7 witness: language() after update_header(langcode="a") on a fresh
\* catalog returned "a".
Wit_C7 ==
    /\ out.op = "language"
    /\ out.prev_op = "update_header"
    /\ out.prev_arg = Some(<<"a">>)
    /\ ~out.was_determined
    /\ out.ret = Some(<<"a">>)

\* index[C[i].key] = i for every position, and exactly len(C) keys
IndexConsistent ==
    /\ \A i \in 1..Len(messages) :
           /\ key(messages[i]) \in DOMAIN msgpos
           /\ msgpos[key(messages[i])] = i - 1
    /\ Cardinality(DOMAIN msgpos) = Len(messages)

\* C1 as claimed: after completed add, non-cumulative add_more, remove,
\* remove_on_sync and sync_map calls on a loaded catalog with distinct
\* keys, index[C[i].key] = i for every position i and the index holds
\* exactly len(C) keys.
CE_C1 == (out.op = "none" \/ out.status = "ok") => IndexConsistent

\* C2 as claimed: no two entries of the catalog have equal key, for every
\* request list given to add_more.
CE_C2 ==
    \A i, j \in 1..Len(messages) :
        i # j => key(messages[i]) # key(messages[j])

\* C8 as claimed: remove_on_sync(m) leaves the sequence and the index as
\* they are and m is still found; the next sync or sync_map takes every
\* flagged entry out of the sequence and of the index, and
\* index[C[i].key] = i for the entries that remain.
CE_C8 ==
    [][/\ (out'.op = "remove_on_sync" /\ out'.status = "ok") =>
              /\ messages' = messages
              /\ msgpos' = msgpos
              /\ \A m \in ros' : key(m) \in DOMAIN msgpos'
                                  /\ PyValid(messages', msgpos'[key(m)])
       /\ (out'.op \in {"sync_map", "sync"} /\ ros # {}) =>
              /\ \A m \in ros : /\ m \notin Range(messages')
                                /\ key(m) \notin DOMAIN msgpos'
              /\ \A i \in 1..Len(messages') :
                     /\ key(messages'[i]) \in DOMAIN msgpos'
                     /\ msgpos'[key(messages'[i])] = i - 1]_vars

\* the entries of seq that are not flagged for removal
Surviving(seq, rs) == SelectSeq(seq, LAMBDA m : m \notin rs)

\* the order sync(noobsend=False) is to produce: the entries before the
\* trailing block of obsolete entries with the obsolete ones moved behind
\* the others, then the trailing block
HoistedOrder(seq, rs) ==
    LET op == obspos(seq)
        front == Surviving(SubSeq(seq, 1, op), rs)
        block == Surviving(SubSeq(seq, op + 1, Len(seq)), rs)
    IN SelectSeq(front, LAMBDA m : ~obsolete(m))
       \o SelectSeq(front, LAMBDA m : obsolete(m))
       \o block

\* C9: a sync(noobsend=False) that writes puts every obsolete entry that
\* stood before the trailing block of obsolete entries right before that
\* block, keeps the order among the hoisted and among the other entries,
\* and the output has the entries in the order the sequence has afterwards.
Inv_C9 ==
    [][(out'.op = "sync" /\ out'.ret /\ ~out'.noobsend) =>
           /\ Ids(out'.flines) = HoistedOrder(messages, ros)
           /\ messages' = Ids(out'.flines)]_vars

\* C9 witness: live, obsolete, live was written as live, live, obsolete.
Wit_C9 ==
    /\ out.op = "sync"
    /\ out.ret
    /\ ~out.noobsend
    /\ Len(out.pre) = 3
    /\ ~obsolete(out.pre[1]) /\ obsolete(out.pre[2]) /\ ~obsolete(out.pre[3])
    /\ messages = <<out.pre[1], out.pre[3], out.pre[2]>>
    /\ Ids(out.flines) = messages

\* C10 as claimed: with noobsend=True the entries that survive the sync
\* stand in their old order, in the output and in the sequence afterwards.
CE_C10 ==
    [][(out'.op = "sync" /\ out'.ret /\ out'.noobsend) =>
           /\ Ids(out'.flines) = Surviving(messages, ros)
           /\ messages' = Surviving(messages, ros)]_vars


\* C11: sync(fitplural=True) gives N empty msgstr fields, N the header's
\* nplurals (1 without Plural-Forms), to every plural entry whose msgstr
\* fields are all empty and are not N in number, and leaves the msgstr of
\* every other entry as it was.
Inv_C11 ==
    [][(out'.op = "sync" /\ out'.fitplural) =>
           LET N == nplurals(plforms)
           IN /\ plforms = None => N = 1
              /\ \A m \in Range(messages') :
                     msgstrs'[m] =
                         IF /\ msgid_plural(m) # None
                            /\ \A i \in 1..Len(msgstrs[m]) :
                                   msgstrs[m][i] = ""
                            /\ Len(msgstrs[m]) # N
                         THEN [i \in 1..N |-> ""]
                         ELSE msgstrs[m]]_vars

\* C11 witness: a sync with fitplural under a header that asks for more
\* msgstr fields than any entry was given left a plural entry with that many
\* empty fields.
Wit_C11 ==
    /\ out.op = "sync"
    /\ out.fitplural
    /\ nplurals(plforms) > MaxStr
    /\ \E m \in Range(messages) :
           /\ msgid_plural(m) # None
           /\ msgstrs[m] = [i \in 1..nplurals(plforms) |-> ""]


\* the positions a caller may ask for, also out of range
AnyPositions == {None} \cup {Some(p) : p \in -(MaxLen + 1)..(MaxLen + 1)}

\* C12: add (add_more of one request) of a message whose key the catalog
\* has, at any requested position, and add_more of two such messages, puts
\* the new message where the entry of that key stood, leaves the length and
\* every other position as they were, and reports None.
Inv_C12 ==
    ~Hung =>
        /\ \A m \in Pool, pos \in AnyPositions :
               key(m) \in DOMAIN msgpos =>
                   LET r == add_more(CatState, <<[msg |-> m, pos |-> pos]>>,
                                     FALSE, <<>>)
                   IN /\ r.status = "ok"
                      /\ \E p \in 1..Len(messages) :
                             /\ key(messages[p]) = key(m)
                             /\ r.messages = [messages EXCEPT ![p] = m]
                      /\ r.pos_res = <<None>>
        /\ \A m1, m2 \in Pool, cumulative \in BOOLEAN :
               ( /\ key(m1) \in DOMAIN msgpos
                 /\ key(m2) \in DOMAIN msgpos
                 /\ key(m1) # key(m2) ) =>
                   LET r == add_more(CatState,
                                     <<[msg |-> m1, pos |-> Some(0)],
                                       [msg |-> m2, pos |-> None]>>,
                                     cumulative, <<>>)
                   IN /\ r.status = "ok"
                      /\ \E p1, p2 \in 1..Len(messages) :
                             /\ key(messages[p1]) = key(m1)
                             /\ key(messages[p2]) = key(m2)
                             /\ r.messages = [messages EXCEPT ![p1] = m1,
                                                              ![p2] = m2]
                      /\ r.pos_res = <<None, None>>

\* C12 witness: an add on a loaded, unmodified catalog put a new object in
\* the place of the entry of its key: the catalog still counts as
\* unmodified and as long as before, and the object was never written.
Wit_C12 ==
    /\ out.op = "add"
    /\ out.status = "ok"
    /\ ~modified
    /\ Len(messages) = 2
    /\ \E i \in 1..Len(messages) : messages[i] \notin committed


\* request lists of k objects not in the catalog, whose keys the index does
\* not hold, each with an explicit in-range position (counted from the front
\* or, negative, from the end)
NewExplicit(k) ==
    LET n == Len(messages)
    IN {r \in [1..k -> [msg : Pool \ Range(messages),
                        pos : {Some(p) : p \in -n..n}]] :
           /\ \A i, j \in 1..k : i # j => r[i].msg # r[j].msg
           /\ \A i \in 1..k : key(r[i].msg) \notin DOMAIN msgpos}

\* C13: add_more with cumulative=False and explicit in-range positions
\* p_1..p_k, counted in the sequence before the call, for k new messages:
\* the entry that stood at index j stands at j + |{i : p_i <= j}|, the
\* sequence is k longer, and the positions returned are the indices at which
\* the new messages stand: p_i plus the number of requests placed before it
\* (requests [(m1, 2), (m2, 5)] give 2 and 6).
Inv_C13 ==
    ~Hung =>
        \A k \in 1..MaxReq : \A req \in NewExplicit(k) :
            LET n == Len(messages)
                P(i) == Resolve(req[i].pos[1], n)
                r == add_more(CatState, req, FALSE, <<>>)
            IN /\ r.status = "ok"
               /\ Len(r.messages) = n + k
               /\ \A j \in 0..(n - 1) :
                      r.messages[j + Cardinality({i \in 1..k : P(i) <= j}) + 1]
                          = messages[j + 1]
               /\ Len(r.pos_res) = k
               /\ \A i \in 1..k :
                      /\ r.pos_res[i] # None
                      /\ r.pos_res[i][1] \in 0..(n + k - 1)
                      /\ r.messages[r.pos_res[i][1] + 1] = req[i].msg
                      /\ r.pos_res[i][1] =
                             P(i) + Cardinality({h \in 1..k :
                                        \/ P(h) < P(i)
                                        \/ P(h) = P(i) /\ h < i})

\* C13 witness: an add_more put two new messages around the one entry of a
\* loaded catalog (requests for positions 0 and 1 before the call).
Wit_C13 ==
    /\ out.op = "add_more"
    /\ out.status = "ok"
    /\ Len(messages) = 3
    /\ messages[1] \notin committed
    /\ messages[2] \in committed
    /\ messages[3] \notin committed
    /\ \A i \in 1..3 : msgpos[key(messages[i])] = i - 1


RECURSIVE Successive(_, _, _)
\* add(req[i].msg, req[i].pos) for i, i + 1, ... one call after another;
\* pos_res collects what the calls return
Successive(st, req, i) ==
    IF i > Len(req) \/ st.status # "ok" THEN st
    ELSE LET r == add_more([st EXCEPT !.pos_res = <<>>], <<req[i]>>, FALSE,
                           <<>>)
         IN Successive([r EXCEPT !.pos_res = st.pos_res \o @], req, i + 1)

\* request lists of k objects not in the catalog with pairwise distinct
\* keys the index does not hold, each with an explicit position from 0 up
\* to the length the catalog has when its turn comes
NewCumulative(k) ==
    LET n == Len(messages)
    IN {r \in [1..k -> [msg : Pool \ Range(messages),
                        pos : {Some(p) : p \in 0..(n + k - 1)}]] :
           /\ \A i, j \in 1..k : i # j => key(r[i].msg) # key(r[j].msg)
           /\ \A i \in 1..k : key(r[i].msg) \notin DOMAIN msgpos
           /\ \A i \in 1..k : r[i].pos[1] <= n + i - 1}

\* C14 as claimed: add_more(requests, cumulative=True) with explicit
\* positions leaves the sequence and the key index as the calls
\* add(m_1, p_1), add(m_2, p_2), ... made in the listed order leave them, and
\* returns the positions those calls return, also for equal or descending
\* positions.
CE_C14 ==
    (~Hung /\ IndexConsistent) =>
        \A k \in 2..MaxReq : \A req \in NewCumulative(k) :
            LET one == Successive(CatState, req, 1)
                all == add_more(CatState, req, TRUE, <<>>)
            IN one.status = "ok" =>
                   /\ all.status = "ok"
                   /\ all.messages = one.messages
                   /\ all.msgpos = one.msgpos
                   /\ all.pos_res = one.pos_res


(***************************************************************************)
(* C15  In a catalog opened with headonly=True every operation that deals  *)
(* with message entries (len, indexing, contains, find, add, add_more,     *)
(* remove, remove_on_sync, insertion_inquiry) signals an error, whatever   *)
(* the file holds, a file of the header entry alone included.              *)
(***************************************************************************)
EntryOps ==
    {"len", "getitem", "contains", "find", "add", "add_more", "remove",
     "remove_on_sync", "insertion_inquiry"}

CE_C15 == (tail # None /\ out.op \in EntryOps) => out.status # "ok"

(***************************************************************************)
(* C16  resolve_entities terminates for every text and every entity map    *)
(* with an acyclic value graph, fcap off or on, and the text it returns    *)
(* holds no reference to a defined entity that is not ignored.             *)
(***************************************************************************)
CE_C16 == <>(res.phase # "call")

(***************************************************************************)
(* C17  resolve_alternatives returns the text unchanged, 0 resolved and    *)
(* malformed=False when the text holds no directive head, and returns the  *)
(* whole text unchanged with malformed=True when it holds a malformed      *)
(* directive: cut short, or with a number of alternatives other than       *)
(* total.  Checked for texts with one head, the directive cut short or     *)
(* with fewer separators after its first than total.                       *)
(***************************************************************************)
Heads(text) ==
    {i \in 0..(Len(text) - 2) : PySlice(text, i, i + 2) = alt_head}

\* the one directive of the text is cut short or has too few alternatives
MalformedOne(text, total) ==
    /\ Cardinality(Heads(text)) = 1
    /\ LET h == CHOOSE i \in Heads(text) : TRUE
       IN \/ Len(text) < h + 4
          \/ Cardinality({i \in (h + 4)..Len(text) :
                             text[i] = text[h + 3]}) < total

CE_C17 ==
    (out.op = "resolve_alternatives") =>
        /\ Heads(inp.text) = {} =>
               res[1] = [status |-> "ok", text |-> inp.text,
                         nresolved |-> 0, malformed |-> FALSE]
        /\ MalformedOne(inp.text, inp.total) =>
               res[1] = [status |-> "ok", text |-> inp.text,
                         nresolved |-> 0, malformed |-> TRUE]

(***************************************************************************)
(* C18  remove_accelerator removes a marker that immediately precedes an   *)
(* alphanumeric, with its parenthesized group when the group is at the     *)
(* leading or trailing edge, and keeps a marker not followed by an         *)
(* alphanumeric: "Foo &Bar (&B)" gives "Foo Bar", "Foo & Bar" is kept.     *)
(* As stated (with "&" among the markers) it fails: one marker is removed  *)
(* per call.                                                               *)
(***************************************************************************)
\* the call looks for the marker "&"
Marking == inp.accels # None \/ inp.greedy

Plain(t) ==
    /\ \A i \in 1..Len(t) : t[i] # ";"
    /\ \A i \in 1..(Len(t) - 1) : ~(t[i] = "&" /\ t[i + 1] = "&")

\* 1-based indices of the markers that immediately precede an alphanumeric
Accs(t) == {i \in 1..(Len(t) - 1) : t[i] = "&" /\ t[i + 1] \in NameChars}

\* what is left of a plain text t whose first marker before an
\* alphanumeric is at i
Expected(t, i) ==
    LET u == SubSeq(t, 1, i - 1) \o SubSeq(t, i + 1, Len(t))
        grouped == /\ i >= 2 /\ t[i - 1] = "("
                   /\ i + 2 <= Len(t) /\ t[i + 2] = ")"
        before == {j \in 1..(i - 2) : t[j] \in NameChars}
        after == {j \in (i + 3)..Len(t) : t[j] \in NameChars}
        lastb == CHOOSE j \in before : \A k \in before : k <= j
        firsta == CHOOSE j \in after : \A k \in after : j <= k
    IN IF ~grouped THEN u
       ELSE IF before = {}
            THEN LStrip(SubSeq(t, 1, i - 2))
                     \o (IF after = {} THEN <<>>
                         ELSE SubSeq(t, firsta, Len(t)))
       ELSE IF after = {}
            THEN SubSeq(t, 1, lastb) \o RStrip(SubSeq(t, i + 3, Len(t)))
       ELSE u

Holds(bkey, pmatch, text, m, catname, env) ==
    ConsMatch(bkey, pmatch, text, m, catname, env) = "T"

EntryMatches(ventry, pmatch, text, m, catname, env) ==
    \A i \in 1..Len(ventry) :
        Holds(ventry[i].bkey, pmatch, text, m, catname, env)
            # ventry[i].invert

\* the trigger matches in the texts of the message part
TriggerMatches(msgpart, m) ==
    LET spec == text_spec(msgpart, m)
    IN UNION {{[part |-> spec[i].part, item |-> spec[i].item, span |-> pm,
                text |-> spec[i].text[1]] : pm \in finditer(spec[i].text[1])} :
                  i \in {j \in 1..Len(spec) : spec[j].text # None}}

CE_C19 ==
    (out.op = "process") =>
        LET r == inp.rule
            reported(t) == [part |-> t.part, item |-> t.item,
                            span |-> t.span] \in res[1].failed
        IN /\ res[1].status = "ok"
           /\ \A t \in TriggerMatches(r.msgpart, inp.msg) :
                  reported(t) <=>
                      ~\E j \in 1..Len(r.valid) :
                           EntryMatches(r.valid[j], t.span, t.text, inp.msg,
                                        inp.cat, inp.env)

(***************************************************************************)
(* C20  Loading a rule file raises IdentError exactly when two of its      *)
(* rules have the same id and the same effective environment: the rule's   *)
(* own environment subdirective if it has one, else the file-wide          *)
(* environment in force at the rule.                                       *)
(***************************************************************************)
\* the value of the directive d in the block b, None when it has none
Sub(lines, b, d) ==
    LET hits == {i \in (b.from + 1)..b.to : lines[i].d = d}
    IN IF hits = {} THEN None ELSE Some(lines[CHOOSE i \in hits : TRUE].v)

\* the file-wide environment in force at line n: the last "environment"
\* line before it that is in no rule
GlobalAt(lines, n) ==
    LET hits == {i \in 1..(n - 1) :
                    /\ lines[i].d = "environment"
                    /\ ~\E b \in Blocks(lines) : b.from < i /\ i <= b.to}
    IN IF hits = {} THEN None
       ELSE Some(lines[CHOOSE i \in hits : \A j \in hits : j <= i].v)

Effective(lines, b) ==
    OrElse(Sub(lines, b, "environment"), GlobalAt(lines, b.from))

SameIdSameEnv(lines) ==
    \E b1, b2 \in Blocks(lines) :
        /\ b1 # b2
        /\ Sub(lines, b1, "id") # None
        /\ Sub(lines, b1, "id") = Sub(lines, b2, "id")
        /\ Effective(lines, b1) = Effective(lines, b2)

CE_C20 ==
    (out.op = "loadRulesFromFile") =>
        (res[1].status = "IdentError" <=> SameIdSameEnv(inp))

(***************************************************************************)
(* C21: select_by_key(msgctxt, msgid, wobs=False) and find(msg,            *)
(* wobs=False) never yield an obsolete catalog entry: when the entry with  *)
(* that key is obsolete, select_by_key returns the empty list and find     *)
(* returns -1, whatever the obsolete state of the lookup message.          *)
(* The code tests the obsolete state of the lookup message only, so this   *)
(* fails.                                                                  *)
(***************************************************************************)
ObsoleteEntry(mkey) ==
    /\ mkey \in DOMAIN msgpos
    /\ PyValid(messages, msgpos[mkey])
    /\ obsolete(PyAt(messages, msgpos[mkey]))

CE_C21 ==
    (/\ out.op \in {"find_wobs", "select_by_key"}
     /\ out.status = "ok"
     /\ ~out.wobs
     /\ ObsoleteEntry(out.key))
    => out.ret = (IF out.op = "find_wobs" THEN -1 ELSE <<>>)

(***************************************************************************)
(* C22: assigning cat[i] = msg (by position or by lookup message) keeps    *)
(* the key index consistent with the sequence: afterwards index[msg.key]   *)
(* = i, and the key of the entry that was replaced no longer maps to i     *)
(* unless it equals msg.key.  __setitem__ never writes the index, so this  *)
(* fails whenever the keys differ.                                         *)
(***************************************************************************)
CE_C22 ==
    (out.op = "setitem" /\ out.status = "ok")
    => /\ key(out.msg) \in DOMAIN msgpos
       /\ msgpos[key(out.msg)] = out.pos
       /\ key(out.old) # key(out.msg)
              => ~(key(out.old) \in DOMAIN msgpos
                   /\ msgpos[key(out.old)] = out.pos)

(***************************************************************************)
(* C23: after a sync that writes the catalog, every entry's refentry       *)
(* equals its entry index in the written file and its refline equals the   *)
(* line number of its msgid keyword in the written file, also for entries  *)
(* that were added, moved, or preceded by added or removed entries since   *)
(* load.  sync assigns neither attribute, so an entry keeps the values it  *)
(* had at load (or -1) and this fails.                                     *)
(***************************************************************************)
Written == [i \in 1..Len(out.flines) |-> out.flines[i].m]

CE_C23 ==
    (out.op = "sync" /\ out.ret)
    => \A i \in 1..Len(Written) :
           /\ refentry[Written[i]] = i
           /\ refline[Written[i]] = MsgidLine(Written, i)

(***************************************************************************)
(* C24: if sync fails after it has created its temporary file (error while *)
(* writing, closing or renaming), the temporary file is removed and the    *)
(* destination file keeps its previous content.  sync has no cleanup on    *)
(* the way out, so the temporary file stays.                               *)
(***************************************************************************)
CE_C24 ==
    (/\ out.op = "sync_io"
     /\ out.status # "ok"
     /\ out.fault \in {"write", "close", "rename", "rename2"})
    => /\ ~out.files.tmpw
       /\ out.files.dest = "old"

(***************************************************************************)
(* C29: if sync raises while encoding or writing the output, the catalog   *)
(* still counts as modified afterwards (modification count not reset,      *)
(* uncommitted entries still uncommitted), so that a later unforced sync   *)
(* writes the pending changes.  The modification count is set to 0 before  *)
(* the lines are encoded, so this fails.                                   *)
(***************************************************************************)
CE_C29 ==
    (/\ out.op = "sync_io"
     /\ out.status # "ok"
     /\ out.fault \in {"encode", "write"}
     /\ out.modified)
    => /\ modified
       /\ out.uncommitted \cap committed = {}
       /\ sync(CatState, FALSE, FALSE).ret

(***************************************************************************)
(* C25: two rules receive the same composed message-filter closure only    *)
(* when their filter stacks are the same pipeline: the same filter types   *)
(* in the same order with the same field values, the same environment      *)
(* lists and the same on-parts; stacks that differ in any of these have    *)
(* different signatures.  The signature leaves out the environment list    *)
(* and the factory arguments of a hook, so this fails.                     *)
(***************************************************************************)
Pipeline(stack) ==
    [i \in 1..Len(stack) |->
       [type |-> stack[i].type, match |-> stack[i].match,
        repl |-> stack[i].repl, caseSens |-> _fancyBool(stack[i].case),
        name |-> stack[i].name, factory |-> stack[i].factory,
        env |-> stack[i].env, on |-> stack[i].on]]

CE_C25 ==
    res # None
    => /\ res[1].reused => Pipeline(inp.first) = Pipeline(inp.second)
       /\ Pipeline(inp.first) # Pipeline(inp.second)
              => res[1].sig1 # res[1].sig2

(***************************************************************************)
(* C26: Rule.process returns a failure list without raising for a message  *)
(* whose optional trigger field is absent: a msgid-triggered rule applied  *)
(* to a message without msgid_plural reports exactly the non-excepted      *)
(* trigger matches found in msgid, and a msgctxt-triggered rule applied to *)
(* a message without msgctxt reports no failure.  The pattern is run on    *)
(* the absent field all the same, so the call raises.                      *)
(***************************************************************************)
FieldAbsent ==
    \/ inp.rule.msgpart = "msgid" /\ inp.msg.msgid_plural = None
    \/ inp.rule.msgpart = "msgctxt" /\ inp.msg.msgctxt = None

NonExcepted ==
    {[part |-> t.part, item |-> t.item, span |-> t.span] :
        t \in {u \in TriggerMatches(inp.rule.msgpart, inp.msg) :
                 ~\E j \in 1..Len(inp.rule.valid) :
                      EntryMatches(inp.rule.valid[j], u.span, u.text,
                                   inp.msg, inp.cat, inp.env)}}

CE_C26 ==
    (out.op = "process" /\ FieldAbsent)
    => /\ res[1].status = "ok"
       /\ res[1].failed = NonExcepted

(***************************************************************************)
(* C27: for a non-obsolete candidate with source references, the insertion *)
(* heuristic returns weight 1.0 whenever one of the candidate's source     *)
(* files equals the current primary source file (or a synonym) of some     *)
(* existing non-obsolete entry during the walk, and returns (end, 0.0)     *)
(* only when no such match exists; this holds for every candidate line     *)
(* number, also one greater than the line numbers of all matching entries  *)
(* when the matching run reaches the end of the non-obsolete entries.      *)
(* In that last case the walk ends without a position and the result is    *)
(* (end, 0.0) in spite of the match.                                       *)
(***************************************************************************)
\* the current primary source file after the walk has looked at the first
\* i entries
RECURSIVE PrimaryAt(_, _, _)
PrimaryAt(msgs, i, srefsyn) ==
    IF i = 0 THEN ""
    ELSE LET prev == PrimaryAt(msgs, i - 1, srefsyn)
             esrcs == source(msgs[i])
             files == UNION {{esrcs[k][1]} \cup Syn(srefsyn, esrcs[k][1]) :
                               k \in 1..Len(esrcs)}
         IN IF esrcs = <<>> \/ prev \in files THEN prev ELSE esrcs[1][1]

SourceMatch(msgs, m, srefsyn) ==
    \E k \in 1..Len(source(m)), i \in 1..obspos(msgs) :
        /\ source(msgs[i]) # <<>>
        /\ source(m)[k][1] \in {PrimaryAt(msgs, i, srefsyn)}
               \cup Syn(srefsyn, PrimaryAt(msgs, i, srefsyn))

CE_C27 ==
    (/\ out.op = "insertion_inquiry_of"
     /\ out.status = "ok"
     /\ ~obsolete(out.msg)
     /\ source(out.msg) # <<>>)
    => IF SourceMatch(messages, out.msg, out.srefsyn)
       THEN out.ret.weight = 1
       ELSE out.ret = [pos |-> obspos(messages), weight |-> 0]

(***************************************************************************)
(* C28: every add_more call terminates, for every request list mixing      *)
(* explicit and automatic (None) positions and for both values of          *)
(* cumulative, also for lists with two or more automatically positioned    *)
(* new messages or with an automatic position not smaller than an explicit *)
(* one.  The loop that places an automatic position among the resolved     *)
(* ones never advances its index, so such a call does not return.          *)
(***************************************************************************)
CE_C28 == out.op \in {"add", "add_more"} => out.status # "hang"

(***************************************************************************)
(* C30: when remove_on_sync(m) is followed, before the next sync or        *)
(* sync_map, by an add of a message with the same key (the same object or  *)
(* a new one), the entry is not removed by the following sync or sync_map: *)
(* add cancels the pending removal on the insertion path and on the        *)
(* replacement path alike.  The replacement path leaves the request as it  *)
(* is, so the same object added again is removed.                          *)
(***************************************************************************)
CE_C30 ==
    [][(/\ out.op = "add_of"
        /\ out.status = "ok"
        /\ out.pending
        /\ out'.op \in {"sync", "sync_map"})
       => out.msg \in Range(messages')]_vars
====
